---- MODULE Spec2Model ----
(***************************************************************************)
(* A model of my-rgb-loop: the orgb Connection (connect retry, background  *)
(* reader thread, rendezvous reply channel, device-list-updated flag), the *)
(* response framing of orgb::protocol at word granularity, the poll loop   *)
(* of main.rs and the lighting state machine of state_machine.rs.          *)
(*                                                                         *)
(* Two programs use the Connection:                                        *)
(*   Spec      an arbitrary single foreground caller of the four public    *)
(*             operations start / send / recv / devices_updated_reset;     *)
(*   MainSpec  the program of main.rs.                                     *)
(* The server is the environment: it accepts or refuses connections, puts  *)
(* arbitrary packets on the socket and may close it at any time.           *)
(*                                                                         *)
(* orgb::protocol is modelled a second time at byte granularity:           *)
(*   WireSpec  the reader thread on a byte stream the server has written;  *)
(*   SendSpec  Connection::send on a socket that may take part of a buffer;*)
(*   CodecSpec the encoders and the parsers, each applied to bounded input.*)
(***************************************************************************)
EXTENDS Integers, Sequences, FiniteSets, TLC

(***************************************************************************)
(* Bounds of the model.                                                    *)
(***************************************************************************)
\* packets the server puts on the socket over one run
MaxPackets == 3
\* devices_updated_reset() results kept in reset_log (and calls the
\* arbitrary caller makes)
MaxResets == 2
\* send() calls counted since the last recv() (and the arbitrary caller's limit)
MaxPending == 2
\* display events delivered by the sleep notifier over one run
MaxEvents == 3
\* display events delivered over one run of main.rs
MainEvents == 2
\* largest controller count the server reports
MaxControllers == 2
\* Normal{ticks} is a u32 that wraps at 2^32; the model wraps it here
TickModulus == 3

(***************************************************************************)
(* Program constants.                                                      *)
(***************************************************************************)
NUM_CONNECTION_TRIES == 10
\* the response message ids of parse::response
ID_CONTROLLER_COUNT == 0
ID_CONTROLLER_DATA == 1
ID_PROTOCOL_VERSION == 40
ID_DEVICE_LIST_UPDATED == 100
\* ControllerType discriminants
TY_DRAM == 1
TY_GPU == 2
TY_LAST == 9
\* State::Wake { ticks_max: 5 }
WAKE_TICKS_MAX == 5
\* fn dram_color_normal(ticks: u32) -> [Oklab; 5]
LED_COUNT == 5
\* the last ZoneType and ColorMode discriminants
ZONE_TY_LAST == 2
COLOR_MODE_LAST == 3

VARIABLES
    fg,               \* the foreground thread's position
    num_tries,        \* Connection::start: failed connection attempts
    started,          \* Connection::start has returned a Connection
    con,              \* the TCP stream: "none", "open", "eof" (peer closed)
    sock_in,          \* packets written by the server and not yet read
    npushed,          \* packets the server has written so far
    reader,           \* the reader thread: "none", "read", "send", "dead"
    held,             \* the response the reader is handing over in tx.send
    devices_updated,  \* the shared AtomicBool
    wrote,            \* the last request written to the socket
    controller_count, \* main: the count of the current enumeration
    controller_idx,   \* main: the loop index of the current enumeration
    new_controllers,  \* main: the controller types collected so far
    sm_state,         \* StateMachine.state
    dram_idx,         \* StateMachine.dram_idx, -1 for None
    notifier,         \* the sleep notifier thread runs
    events,           \* display events sent and not yet taken by try_recv
    nevents,          \* display events sent so far
    arrived,          \* history: responses framed by the reader, in socket order
    received,         \* history: responses returned by recv(), in order
    unseen,           \* history: notifications stored since the last reset call
    reset_log,        \* history: the first MaxResets devices_updated_reset() calls
    pending_sends,    \* history: send() calls since the last recv(), up to MaxPending
    awaiting,         \* history: reply-bearing requests sent and not yet answered
    enumerations,     \* history: controllers_updated() calls, up to 2
    wire,             \* the server's bytes not yet read (the byte-level socket)
    frames,           \* history: one record for each Response::read_from call on wire
    cio,              \* the codec operation last applied: its input and its result
    sends,            \* history: each byte-level send() call and what the socket took
    overflow_checks   \* the build panics on integer overflow (debug) or wraps (release)

connVars == <<con, sock_in, npushed, reader, held, devices_updated, wrote>>
mainVars == <<controller_count, controller_idx, new_controllers>>
smVars == <<sm_state, dram_idx, notifier, events, nevents>>
histVars == <<arrived, received, unseen, reset_log, pending_sends, awaiting, enumerations>>
codecVars == <<wire, frames, cio, sends, overflow_checks>>
vars == <<fg, num_tries, started, connVars, mainVars, smVars, histVars, codecVars>>

Min(a, b) == IF a < b THEN a ELSE b

(***************************************************************************)
(* Responses, requests and packets.                                        *)
(***************************************************************************)
Resp(t, v) == [tag |-> t, val |-> v]
NoResp == Resp("None", 0)
DeviceListUpdated == Resp("DeviceListUpdated", 0)

Req(t, i) == [tag |-> t, idx |-> i]
NoReq == Req("None", 0)

\* A packet on the wire: whether its first four bytes are "ORGB", its message
\* id and its payload, a sequence of u32 words (the header's pkt_size is the
\* payload's length: framing hands the decoder exactly that many words).
Pkt(m, id, d) == [magic |-> m, pkt_id |-> id, data |-> d]

\* The packets the server chooses from: the four well-formed responses, and one
\* packet for each way decoding fails.
GoodPackets ==
    {Pkt(TRUE, ID_CONTROLLER_COUNT, <<c>>) : c \in 0..MaxControllers}
    \cup {Pkt(TRUE, ID_CONTROLLER_DATA, <<t>>) : t \in {TY_DRAM, TY_GPU}}
    \cup {Pkt(TRUE, ID_PROTOCOL_VERSION, <<0>>), Pkt(TRUE, ID_DEVICE_LIST_UPDATED, <<>>)}
BadPackets ==
    {Pkt(FALSE, ID_CONTROLLER_COUNT, <<0>>),       \* bad magic
     Pkt(TRUE, 50, <<>>),                          \* unknown message id
     Pkt(TRUE, ID_CONTROLLER_COUNT, <<>>),         \* truncated payload
     Pkt(TRUE, ID_DEVICE_LIST_UPDATED, <<0>>),     \* leftover payload
     Pkt(TRUE, ID_CONTROLLER_DATA, <<TY_LAST + 1>>)} \* unknown enum discriminant
WirePackets == GoodPackets \cup BadPackets

\* What the server sends to an arbitrary caller: a reply of each kind the
\* caller asks for, the notification, and a packet that does not decode.
ClientPackets ==
    {Pkt(TRUE, ID_CONTROLLER_COUNT, <<1>>), Pkt(TRUE, ID_CONTROLLER_DATA, <<TY_DRAM>>),
     Pkt(TRUE, ID_DEVICE_LIST_UPDATED, <<>>), Pkt(TRUE, 50, <<>>)}

\* What the server sends to main.rs.
MainPackets ==
    GoodPackets \cup {Pkt(TRUE, 50, <<>>)}

(***************************************************************************)
(* orgb::protocol, the receive path.                                       *)
(***************************************************************************)
\* A parser's result: ok, the value, the rest of the input.
ParseOk(v, rest) == [ok |-> TRUE, val |-> v, rest |-> rest]
ParseFail == [ok |-> FALSE, val |-> NoResp, rest |-> <<>>]

\* parse::u32 mapped into a response variant
parse_u32(t, input) ==
    IF Len(input) >= 1 THEN ParseOk(Resp(t, Head(input)), Tail(input)) ELSE ParseFail

\* parse::controller_data, reduced to the controller type, the one field the
\* program reads: an unknown discriminant panics
parse_controller_data(input) ==
    IF Len(input) >= 1 /\ Head(input) \in 0..TY_LAST
    THEN ParseOk(Resp("ControllerData", Head(input)), Tail(input))
    ELSE ParseFail

\* parse::response: the message id selects the variant
parse_response(pkt_id, input) ==
    CASE pkt_id = ID_CONTROLLER_COUNT -> parse_u32("ControllerCount", input)
      [] pkt_id = ID_CONTROLLER_DATA -> parse_controller_data(input)
      [] pkt_id = ID_PROTOCOL_VERSION -> parse_u32("ProtocolVersion", input)
      [] pkt_id = ID_DEVICE_LIST_UPDATED -> ParseOk(DeviceListUpdated, input)
      [] OTHER -> ParseFail

\* Response::read_from on one whole packet: the header's magic, the payload by
\* message id, and no unparsed data left.  Every failure (an Err or a panic)
\* ends the calling thread, so one failed result stands for them all.
read_from(p) ==
    IF ~p.magic THEN ParseFail
    ELSE LET r == parse_response(p.pkt_id, p.data)
         IN IF r.ok /\ r.rest = <<>> THEN r ELSE ParseFail

(***************************************************************************)
(* Connection::start.                                                      *)
(***************************************************************************)
TriesExhaustedLate(n) == n > NUM_CONNECTION_TRIES
\* `if num_tries >= NUM_CONNECTION_TRIES { panic!(..) }`
TriesExhausted(n) == n >= NUM_CONNECTION_TRIES

FlagStartsClear == FALSE
\* `AtomicBool::new(true)`
InitialFlag == TRUE

\* One TcpStream::connect: the server accepts or refuses.
Connect(accepted) ==
    /\ fg = "connect"
    /\ IF accepted
       THEN /\ con' = "open"
            /\ fg' = "connected"
            /\ UNCHANGED num_tries
       ELSE /\ num_tries' = num_tries + 1
            /\ fg' = IF TriesExhausted(num_tries + 1) THEN "panicked" ELSE "connect"
            /\ UNCHANGED con
    /\ UNCHANGED <<started, sock_in, npushed, reader, held, devices_updated, wrote,
                   mainVars, smVars, histVars>>
    /\ UNCHANGED codecVars

\* The rest of start: the channel, the flag, the reader thread, the Connection.
StartReturn(next) ==
    /\ fg = "connected"
    /\ devices_updated' = InitialFlag
    /\ reader' = "read"
    /\ started' = TRUE
    /\ num_tries' = 0
    /\ fg' = next
    /\ UNCHANGED <<con, sock_in, npushed, held, wrote, mainVars, smVars, histVars>>
    /\ UNCHANGED codecVars

\* The process runs: a panic of the foreground (the main thread) ends it.
Alive == fg # "panicked"

(***************************************************************************)
(* The environment: the OpenRGB server.                                    *)
(***************************************************************************)
\* The server writes a packet.  Nothing reads the socket once the reader thread
\* is gone, so what is written after that is left out.
ServerSend(p) ==
    /\ Alive
    /\ con = "open"
    /\ reader # "dead"
    /\ npushed < MaxPackets
    /\ sock_in' = Append(sock_in, p)
    /\ npushed' = npushed + 1
    /\ UNCHANGED <<fg, num_tries, started, con, reader, held, devices_updated, wrote,
                   mainVars, smVars, histVars>>
    /\ UNCHANGED codecVars

ServerClose ==
    /\ Alive
    /\ con = "open"
    /\ con' = "eof"
    /\ UNCHANGED <<fg, num_tries, started, sock_in, npushed, reader, held,
                   devices_updated, wrote, mainVars, smVars, histVars>>
    /\ UNCHANGED codecVars

(***************************************************************************)
(* Connection::send, Connection::recv, Connection::devices_updated_reset.  *)
(***************************************************************************)
\* The requests parse::response knows a reply for (ids 0, 1 and 40); set
\* client name (50) and update leds (1050) are answered by nothing.
HasReply(req) == req.tag \in {"ControllerCount", "ControllerData", "ProtocolVersion"}

\* What a write to the socket may do: it succeeds on an open stream, and
\* succeeds or fails once the peer has closed.
WriteOutcomes == IF con = "open" THEN {TRUE} ELSE {TRUE, FALSE}

\* Connection::send: the request is written, or the write fails and the
\* `expect` panics.  `next` is where the caller goes on.
send(req, ok, next) ==
    /\ ok \in WriteOutcomes
    /\ IF ok
       THEN /\ wrote' = req
            /\ fg' = next
            /\ pending_sends' = Min(pending_sends + 1, MaxPending)
            /\ awaiting' = awaiting + (IF HasReply(req) THEN 1 ELSE 0)
       ELSE /\ fg' = "panicked"
            /\ UNCHANGED <<wrote, pending_sends, awaiting>>

FlagStoredFalse == FALSE
\* `devices_updated.store(true, Ordering::Relaxed)`
FlagAfterStore == TRUE

FlagAfterLoad(old) == old
\* `swap(false, Ordering::Relaxed)`: the value the flag is left with
FlagAfterSwap(old) == FALSE

\* Connection::devices_updated_reset: one atomic swap; the value returned is
\* the flag's value before the step
devices_updated_reset ==
    /\ devices_updated' = FlagAfterSwap(devices_updated)
    /\ reset_log' = IF Len(reset_log) < MaxResets
                    THEN Append(reset_log, [ret |-> devices_updated, unseen |-> unseen])
                    ELSE reset_log
    /\ unseen' = 0

\* The foreground is blocked in Connection::recv
InRecv == fg \in {"recv", "recv_version", "recv_count", "recv_data"}

(***************************************************************************)
(* main.rs: what the foreground does with the response recv() returned.    *)
(***************************************************************************)
MismatchIgnored == "for_next"
\* `_ => panic!("Unexpected response")`
OnMismatch == "panicked"

MatchVersion(resp) ==
    /\ fg' = IF resp.tag = "ProtocolVersion" THEN "new_sm" ELSE "panicked"
    /\ UNCHANGED mainVars

MatchCount(resp) ==
    IF resp.tag = "ControllerCount"
    THEN /\ controller_count' = resp.val
         /\ controller_idx' = 0
         /\ new_controllers' = <<>>
         /\ fg' = "for_next"
    ELSE /\ fg' = OnMismatch
         /\ UNCHANGED mainVars

MatchData(resp) ==
    IF resp.tag = "ControllerData"
    THEN /\ new_controllers' = Append(new_controllers, resp.val)
         /\ controller_idx' = controller_idx + 1
         /\ fg' = "for_next"
         /\ UNCHANGED controller_count
    ELSE /\ fg' = OnMismatch
         /\ UNCHANGED mainVars

\* recv() returns resp to its caller
RecvReturn(resp) ==
    /\ received' = Append(received, resp)
    /\ pending_sends' = 0
    /\ awaiting' = IF awaiting > 0 THEN awaiting - 1 ELSE 0
    /\ CASE fg = "recv_version" -> MatchVersion(resp)
         [] fg = "recv_count" -> MatchCount(resp)
         [] fg = "recv_data" -> MatchData(resp)
         [] OTHER -> fg' = "api" /\ UNCHANGED mainVars

(***************************************************************************)
(* Connection::start, the reader thread.                                   *)
(***************************************************************************)
IsNotificationNever(resp) == FALSE
\* the match arm `Response::DeviceListUpdated =>`
IsNotification(resp) == resp = DeviceListUpdated

SendCompletesUnreceived == TRUE
\* `mpsc::sync_channel(0)`: tx.send returns when a recv() takes the message
SendMayComplete == InRecv

ReaderResends == "send"
\* after tx.send the loop goes back to Response::read_from
ReaderAfterSend == "read"

\* One turn of the loop up to the match: a packet is framed and decoded; a
\* notification sets the flag, any other response goes to tx.send.  A read
\* error (the peer closed), or a packet that does not decode, panics the thread.
ReaderRead ==
    /\ Alive
    /\ reader = "read"
    /\ sock_in # <<>> \/ con = "eof"
    /\ IF sock_in = <<>>
       THEN /\ reader' = "dead"
            /\ UNCHANGED <<sock_in, held, devices_updated, arrived, unseen>>
       ELSE LET r == read_from(Head(sock_in))
            IN /\ sock_in' = Tail(sock_in)
               /\ IF ~r.ok
                  THEN /\ reader' = "dead"
                       /\ UNCHANGED <<held, devices_updated, arrived, unseen>>
                  ELSE /\ arrived' = Append(arrived, r.val)
                       /\ IF IsNotification(r.val)
                          THEN /\ devices_updated' = FlagAfterStore
                               /\ unseen' = unseen + 1
                               /\ UNCHANGED <<reader, held>>
                          ELSE /\ held' = r.val
                               /\ reader' = "send"
                               /\ UNCHANGED <<devices_updated, unseen>>
    /\ UNCHANGED <<fg, num_tries, started, con, npushed, wrote, mainVars, smVars,
                   received, reset_log, pending_sends, awaiting, enumerations>>
    /\ UNCHANGED codecVars

\* tx.send completes: the foreground's recv() takes the message
ReaderSend ==
    /\ Alive
    /\ reader = "send"
    /\ SendMayComplete
    /\ reader' = ReaderAfterSend
    /\ held' = IF ReaderAfterSend = "send" THEN held ELSE NoResp
    /\ IF InRecv
       THEN RecvReturn(held)
       ELSE UNCHANGED <<fg, mainVars, received, pending_sends, awaiting>>
    /\ UNCHANGED <<num_tries, started, con, sock_in, npushed, devices_updated, wrote,
                   smVars, arrived, unseen, reset_log, enumerations>>
    /\ UNCHANGED codecVars

SenderNeverDropped == FALSE
\* the reader thread's panic drops tx, the channel's only sender
SenderDropped == reader = "dead"

\* recv() with the sender dropped: `expect("Sender has been destroyed")`
RecvDisconnected ==
    /\ InRecv
    /\ SenderDropped
    /\ fg' = "panicked"
    /\ UNCHANGED <<num_tries, started, connVars, mainVars, smVars, histVars>>
    /\ UNCHANGED codecVars

(***************************************************************************)
(* An arbitrary foreground caller of the Connection.                       *)
(***************************************************************************)
ClientRequests == {Req("ControllerCount", 0), Req("UpdateLeds", 0)}

ClientSend(req, ok) ==
    /\ fg = "api"
    /\ pending_sends < MaxPending
    /\ send(req, ok, "api")
    /\ UNCHANGED <<num_tries, started, con, sock_in, npushed, reader, held,
                   devices_updated, mainVars, smVars, arrived, received, unseen,
                   reset_log, enumerations>>
    /\ UNCHANGED codecVars

ClientRecv ==
    /\ fg = "api"
    /\ fg' = "recv"
    /\ UNCHANGED <<num_tries, started, connVars, mainVars, smVars, histVars>>
    /\ UNCHANGED codecVars

ClientReset ==
    /\ fg = "api"
    /\ Len(reset_log) < MaxResets
    /\ devices_updated_reset
    /\ UNCHANGED <<fg, num_tries, started, con, sock_in, npushed, reader, held, wrote,
                   mainVars, smVars, arrived, received, pending_sends, awaiting,
                   enumerations>>
    /\ UNCHANGED codecVars

\* no codec operation has been applied
NoCodecOp == [op |-> "none"]

(***************************************************************************)
(* The state before Connection::start.                                     *)
(***************************************************************************)
ProgramInit ==
    /\ fg = "connect"
    /\ num_tries = 0
    /\ started = FALSE
    /\ con = "none"
    /\ sock_in = <<>>
    /\ npushed = 0
    /\ reader = "none"
    /\ held = NoResp
    /\ devices_updated = FALSE
    /\ wrote = NoReq
    /\ controller_count = 0
    /\ controller_idx = 0
    /\ new_controllers = <<>>
    /\ sm_state = [tag |-> "Normal", ticks |-> 0, ticks_max |-> 0]
    /\ dram_idx = -1
    /\ notifier = FALSE
    /\ events = <<>>
    /\ nevents = 0
    /\ arrived = <<>>
    /\ received = <<>>
    /\ unseen = 0
    /\ reset_log = <<>>
    /\ pending_sends = 0
    /\ awaiting = 0
    /\ enumerations = 0

\* The two programs below read the socket packet by packet: no byte-level
\* variable moves, and no action of theirs reads overflow_checks.
Init ==
    /\ ProgramInit
    /\ wire = <<>>
    /\ frames = <<>>
    /\ cio = NoCodecOp
    /\ sends = <<>>
    /\ overflow_checks = TRUE

\* The Connection under an arbitrary caller.
Next ==
    \/ \E accepted \in BOOLEAN : Connect(accepted)
    \/ StartReturn("api")
    \/ \E p \in ClientPackets : ServerSend(p)
    \/ ServerClose
    \/ ReaderRead
    \/ ReaderSend
    \/ RecvDisconnected
    \/ \E req \in ClientRequests, ok \in BOOLEAN : ClientSend(req, ok)
    \/ ClientRecv
    \/ ClientReset

Spec == Init /\ [][Next]_vars

(***************************************************************************)
(* state_machine.rs.                                                       *)
(***************************************************************************)
Normal(t) == [tag |-> "Normal", ticks |-> t, ticks_max |-> 0]
Wake(t, m) == [tag |-> "Wake", ticks |-> t, ticks_max |-> m]
Sleep == [tag |-> "Sleep", ticks |-> 0, ticks_max |-> 0]
NoEvent == "None"
DisplayEvents == {"Off", "On", "Dimmed"}

\* wndproc: the notifier thread sends a display event
NotifierSend(e) ==
    /\ Alive
    /\ notifier
    /\ nevents < MaxEvents
    /\ events' = Append(events, e)
    /\ nevents' = nevents + 1
    /\ UNCHANGED <<fg, num_tries, started, connVars, mainVars, sm_state, dram_idx,
                   notifier, histVars>>
    /\ UNCHANGED codecVars

WakeHeedsEvents(s, event) ==
    IF event \in {"Off", "Dimmed"} THEN Sleep
    ELSE IF s.tag = "Sleep" THEN (IF event = "On" THEN Wake(0, WAKE_TICKS_MAX) ELSE Sleep)
    ELSE IF s.tag = "Wake" /\ s.ticks + 1 # s.ticks_max THEN Wake(s.ticks + 1, s.ticks_max)
    ELSE Normal(IF s.tag = "Normal" THEN (s.ticks + 1) % TickModulus ELSE 0)
\* StateMachine::update, "Update the current state"
NextState(s, event) ==
    CASE s.tag = "Normal" ->
           IF event \in {"Off", "Dimmed"} THEN Sleep
           ELSE Normal((s.ticks + 1) % TickModulus)
      [] s.tag = "Sleep" ->
           IF event = "On" THEN Wake(0, WAKE_TICKS_MAX) ELSE Sleep
      [] s.tag = "Wake" ->
           IF s.ticks + 1 = s.ticks_max THEN Normal(0)
           ELSE Wake(s.ticks + 1, s.ticks_max)

RECURSIVE Position(_, _, _)
PositionOfLast(types, ty, from) ==
    IF \A i \in DOMAIN types : types[i] # ty THEN -1
    ELSE (CHOOSE i \in DOMAIN types :
            types[i] = ty /\ \A j \in DOMAIN types : types[j] = ty => j <= i) - 1
\* StateMachine::controllers_updated: the position of the first Dram controller
Position(types, ty, from) ==
    IF from > Len(types) THEN -1
    ELSE IF types[from] = ty THEN from - 1
    ELSE Position(types, ty, from + 1)

(***************************************************************************)
(* main.rs.                                                                *)
(***************************************************************************)
MainSetName(ok) ==
    /\ fg = "set_name"
    /\ send(Req("SetClientName", 0), ok, "req_version")
    /\ UNCHANGED <<num_tries, started, con, sock_in, npushed, reader, held,
                   devices_updated, mainVars, smVars, arrived, received, unseen,
                   reset_log, enumerations>>
    /\ UNCHANGED codecVars

SkipVersionReply == "new_sm"
\* `serv.send(Request::ProtocolVersion(0)); match serv.recv() {`
AfterVersionRequest == "recv_version"

MainReqVersion(ok) ==
    /\ fg = "req_version"
    /\ send(Req("ProtocolVersion", 0), ok, AfterVersionRequest)
    /\ UNCHANGED <<num_tries, started, con, sock_in, npushed, reader, held,
                   devices_updated, mainVars, smVars, arrived, received, unseen,
                   reset_log, enumerations>>
    /\ UNCHANGED codecVars

\* StateMachine::new: the notifier thread starts.  `next` is where the
\* caller goes on.
new(next) ==
    /\ notifier' = TRUE
    /\ dram_idx' = -1
    /\ sm_state' = Normal(0)
    /\ fg' = next
    /\ UNCHANGED <<num_tries, started, connVars, mainVars, events, nevents, histVars>>
    /\ UNCHANGED codecVars

\* `let mut state_machine = StateMachine::new();`
MainNewStateMachine ==
    /\ fg = "new_sm"
    /\ new("poll")

PollNeverEnumerates(updated) == "update"
\* `if serv.devices_updated_reset() {`: the enumeration, or straight to update()
AfterPoll(updated) == IF updated THEN "req_count" ELSE "update"

\* `if serv.devices_updated_reset()`
MainPoll ==
    /\ fg = "poll"
    /\ devices_updated_reset
    /\ fg' = AfterPoll(devices_updated)
    /\ UNCHANGED <<num_tries, started, con, sock_in, npushed, reader, held, wrote,
                   mainVars, smVars, arrived, received, pending_sends, awaiting,
                   enumerations>>
    /\ UNCHANGED codecVars

MainReqCount(ok) ==
    /\ fg = "req_count"
    /\ send(Req("ControllerCount", 0), ok, "recv_count")
    /\ UNCHANGED <<num_tries, started, con, sock_in, npushed, reader, held,
                   devices_updated, mainVars, smVars, arrived, received, unseen,
                   reset_log, enumerations>>
    /\ UNCHANGED codecVars

\* `for controller_idx in 0..controller_count`, one more turn
MainReqData(ok) ==
    /\ fg = "for_next"
    /\ controller_idx < controller_count
    /\ send(Req("ControllerData", controller_idx), ok, "recv_data")
    /\ UNCHANGED <<num_tries, started, con, sock_in, npushed, reader, held,
                   devices_updated, mainVars, smVars, arrived, received, unseen,
                   reset_log, enumerations>>
    /\ UNCHANGED codecVars

\* StateMachine::controllers_updated
controllers_updated(controllers, next) ==
    /\ dram_idx' = Position(controllers, TY_DRAM, 1)
    /\ enumerations' = Min(enumerations + 1, 2)
    /\ fg' = next
    /\ UNCHANGED <<num_tries, started, connVars, sm_state, notifier, events, nevents,
                   arrived, received, unseen, reset_log, pending_sends, awaiting>>
    /\ UNCHANGED codecVars

\* the loop is over: `state_machine.controllers_updated(&new_controllers)`
MainControllersUpdated ==
    /\ fg = "for_next"
    /\ controller_idx >= controller_count
    /\ controllers_updated(new_controllers, "update")
    /\ UNCHANGED mainVars

\* dram_color_asleep, dram_color_normal, dram_color_wake: an array of
\* LED_COUNT colors, each told here by the function that made it and its place
dram_colors(state) == [i \in 1..LED_COUNT |-> <<state.tag, i>>]

\* Request::UpdateLeds { controller_idx, colors }
UpdateLeds(idx, colors) == [tag |-> "UpdateLeds", idx |-> idx, colors |-> colors]

\* StateMachine::update: try_recv takes the oldest event if there is one, the
\* state steps, and the colors of the new state go to the Dram controller if
\* there is one
update(ok, next) ==
    /\ LET event == IF events = <<>> THEN NoEvent ELSE Head(events)
       IN /\ events' = IF events = <<>> THEN events ELSE Tail(events)
          /\ sm_state' = NextState(sm_state, event)
    /\ IF dram_idx >= 0
       THEN send(UpdateLeds(dram_idx, dram_colors(sm_state')), ok, next)
       ELSE /\ ok
            /\ fg' = next
            /\ UNCHANGED <<wrote, pending_sends, awaiting>>
    /\ UNCHANGED <<num_tries, started, con, sock_in, npushed, reader, held,
                   devices_updated, mainVars, dram_idx, notifier, nevents, arrived,
                   received, unseen, reset_log, enumerations>>
    /\ UNCHANGED codecVars

\* `state_machine.update(&mut serv)` and the 100 ms sleep
MainUpdate(ok) ==
    /\ fg = "update"
    /\ update(ok, "poll")

\* The program of main.rs.
MainNext ==
    \/ \E accepted \in BOOLEAN : Connect(accepted)
    \/ StartReturn("set_name")
    \/ \E p \in MainPackets : ServerSend(p)
    \/ ServerClose
    \/ ReaderRead
    \/ ReaderSend
    \/ RecvDisconnected
    \/ \E e \in DisplayEvents : nevents < MainEvents /\ NotifierSend(e)
    \/ \E ok \in BOOLEAN : MainSetName(ok)
    \/ \E ok \in BOOLEAN : MainReqVersion(ok)
    \/ MainNewStateMachine
    \/ MainPoll
    \/ \E ok \in BOOLEAN : MainReqCount(ok)
    \/ \E ok \in BOOLEAN : MainReqData(ok)
    \/ MainControllersUpdated
    \/ \E ok \in BOOLEAN : MainUpdate(ok)

MainSpec == Init /\ [][MainNext]_vars

(***************************************************************************)
(* Scheduling: a thread that can take a step eventually takes one, and     *)
(* writes to a stream the peer has closed do not succeed for ever.         *)
(***************************************************************************)
MainThread ==
    \/ StartReturn("set_name")
    \/ RecvDisconnected
    \/ \E ok \in BOOLEAN : MainSetName(ok)
    \/ \E ok \in BOOLEAN : MainReqVersion(ok)
    \/ MainNewStateMachine
    \/ MainPoll
    \/ \E ok \in BOOLEAN : MainReqCount(ok)
    \/ \E ok \in BOOLEAN : MainReqData(ok)
    \/ MainControllersUpdated
    \/ \E ok \in BOOLEAN : MainUpdate(ok)

FairSpec == Spec /\ WF_vars(RecvDisconnected)

FairMainSpec ==
    /\ MainSpec
    /\ WF_vars(MainThread)
    /\ WF_vars(ReaderRead \/ ReaderSend)
    /\ SF_vars(MainThread /\ fg' = "panicked")

(***************************************************************************)
(* Properties.                                                             *)
(***************************************************************************)
NonNotification(r) == r # DeviceListUpdated
\* the responses of a history that are not the notification
Replies(seq) == SelectSeq(seq, NonNotification)
\* the devices_updated_reset() calls of the log that returned true
TrueResets == Cardinality({i \in DOMAIN reset_log : reset_log[i].ret})
Notified == \E i \in DOMAIN arrived : arrived[i] = DeviceListUpdated

C2_NoNotificationOnRecv ==
    /\ held # DeviceListUpdated
    /\ \A i \in DOMAIN received : received[i] # DeviceListUpdated

\* a reply framed after a notification has been returned by recv()
C2_Witness ==
    /\ Len(arrived) >= 2
    /\ arrived[1] = DeviceListUpdated
    /\ arrived[2] # DeviceListUpdated
    /\ received = <<arrived[2]>>

\* C3: the responses recv() returned, followed by the one the reader is
\* handing over if any, are exactly the non-notification responses in the order
\* the reader framed them: none dropped, duplicated or reordered.
C3_RepliesInOrder ==
    received \o (IF reader = "send" THEN <<held>> ELSE <<>>) = Replies(arrived)

\* two different replies with a notification between them were both received
C3_Witness ==
    /\ Len(arrived) = 3
    /\ arrived[2] = DeviceListUpdated
    /\ Len(received) = 2
    /\ received[1] # received[2]

\* The stream [controller-count reply][device-list-updated][controller-data
\* reply] has been framed, both replies were received, and a
\* devices_updated_reset() call followed the notification.
C4_Stream ==
    <<Resp("ControllerCount", 1), DeviceListUpdated, Resp("ControllerData", TY_DRAM)>>
C4_RunDone ==
    /\ arrived = C4_Stream
    /\ Len(received) = 2
    /\ unseen = 0
    /\ reset_log # <<>>

\* C4 as stated: the two recv() calls yield (controller-count, controller-data)
\* and devices_updated_reset() observes true exactly once over the run.
C4_Original ==
    C4_RunDone =>
        /\ received = <<Resp("ControllerCount", 1), Resp("ControllerData", TY_DRAM)>>
        /\ TrueResets = 1

\* C4 amended: the two recv() calls yield (controller-count, controller-data),
\* the notification is not among them, and devices_updated_reset() observes
\* true once for the notification, and once more when a call was made before
\* the notification was stored (the flag starts set).
C4_OrderingScenario ==
    C4_RunDone =>
        /\ received = <<Resp("ControllerCount", 1), Resp("ControllerData", TY_DRAM)>>
        /\ TrueResets = 1 + (IF reset_log[1].unseen = 0 THEN 1 ELSE 0)

\* one send, two recv, and a single devices_updated_reset() after the notification
C4_Witness ==
    /\ C4_RunDone
    /\ wrote # NoReq
    /\ Len(reset_log) = 1
    /\ reset_log[1].ret

\* C5: devices_updated_reset() returns the flag and leaves it false in one
\* step, and no notification is lost: a notification stored since the last
\* call keeps the flag set, the call that follows it returned true, and
\* after a call with nothing stored since the flag is false.
C5_TestAndClear ==
    /\ unseen > 0 => devices_updated
    /\ \A i \in DOMAIN reset_log : reset_log[i].unseen > 0 => reset_log[i].ret
    /\ (started /\ unseen = 0 /\ reset_log # <<>>) => ~devices_updated

\* a second call, made after a notification was stored, returned true
C5_Witness ==
    /\ Len(reset_log) = 2
    /\ reset_log[2].unseen > 0
    /\ reset_log[2].ret
    /\ ~devices_updated

\* C6: in main.rs the first devices_updated_reset() returns true, whether or
\* not a notification was stored, and the first turn of the poll loop
\* enumerates the controllers before it updates the lights.
C6_FlagStartsSet ==
    /\ reset_log # <<>> => reset_log[1].ret
    /\ Len(reset_log) = 1 =>
          fg \in {"req_count", "recv_count", "for_next", "recv_data", "update",
                  "poll", "panicked"}
    /\ (fg = "update" \/ (fg = "poll" /\ reset_log # <<>>)) => enumerations >= 1

\* the first turn enumerated the controllers though the server sent no notification
C6_Witness ==
    /\ Len(reset_log) = 1
    /\ reset_log[1].unseen = 0
    /\ ~Notified
    /\ fg = "update"
    /\ enumerations = 1

\* C7: while the reader is handing a reply over it frames nothing more and
\* takes nothing from the socket, and it leaves tx.send only by a recv() that
\* returns that reply; so at most one framed reply is not yet received, and
\* there is one exactly while the reader is in tx.send.
C7_Rendezvous ==
    /\ [](Len(Replies(arrived)) - Len(received) = (IF reader = "send" THEN 1 ELSE 0))
    /\ [][reader = "send" =>
            /\ arrived' = arrived
            /\ Len(sock_in') >= Len(sock_in)
            /\ reader' # "send" => (InRecv /\ received' = Append(received, held))]_vars

\* the reader waits with a reply in hand, packets wait on the socket, and the
\* foreground is not in recv()
C7_Witness ==
    /\ reader = "send"
    /\ sock_in # <<>>
    /\ fg = "api"
    /\ received # <<>>

\* C8 as stated: the foreground never sends a second request before a recv().
C8_Original == pending_sends <= 1

\* C8 amended: at most one reply is outstanding.  A request that has a reply
\* (ProtocolVersion, ControllerCount, ControllerData) is followed by recv()
\* before anything else is sent; SetClientName and UpdateLeds, which have no
\* reply, are sent with no recv() after them.
C8_OneOutstandingReply ==
    /\ awaiting <= 1
    /\ (awaiting = 1 /\ Alive) => InRecv
    /\ InRecv => (awaiting = 1 /\ HasReply(wrote))

\* a second enumeration, after a periodic update, waits for its reply
C8_Witness ==
    /\ fg = "recv_count"
    /\ enumerations >= 1
    /\ awaiting = 1
    /\ pending_sends = 1

\* C9: once the reader thread has terminated, the foreground terminates too.
C9_ReaderDeathIsFatal == (reader = "dead") ~> (fg = "panicked")

\* C10: recv() with the reader thread gone panics rather than blocks, and
\* recv() returns a response only by taking the one the reader hands over.
C10_RecvAfterReaderGone ==
    /\ (InRecv /\ reader = "dead") ~> (fg = "panicked")
    /\ [][received' # received =>
            (reader = "send" /\ InRecv /\ received' = Append(received, held))]_vars

\* the foreground is blocked in recv() and the reader thread has panicked
C10_Witness == fg = "recv" /\ reader = "dead" /\ received # <<>>

(***************************************************************************)
(* orgb::protocol at byte granularity.  A buffer is a sequence of bytes;   *)
(* integers are laid out in the target's native order, little-endian on    *)
(* every Windows target (sleep-notifier builds only there).                *)
(***************************************************************************)
Byte == 0..255
Take(s, n) == SubSeq(s, 1, n)
Drop(s, n) == SubSeq(s, n + 1, Len(s))
\* n copies of the pattern's bytes, cut to n bytes
Repeat(pattern, n) == [i \in 1..n |-> pattern[((i - 1) % Len(pattern)) + 1]]

\* TLC's integers end at 2^31 - 1, so a u32 is held as its two 16-bit halves
\* <<high, low>>.  U32(n) is the u32 of an integer below 2^31.
U32(n) == <<n \div 65536, n % 65536>>
\* the largest integer there is, standing for every count of 2^31 or more: no
\* buffer of the model holds as many bytes
HUGE == 32767 * 65536 + 65535
\* `x as usize` on a u32
as_usize(x) == IF x[1] < 32768 THEN x[1] * 65536 + x[2] ELSE HUGE

\* u16::to_ne_bytes / u32::to_ne_bytes
to_ne_bytes16(x) == <<x % 256, (x \div 256) % 256>>
to_ne_bytes32(x) == <<x[2] % 256, x[2] \div 256, x[1] % 256, x[1] \div 256>>
\* u32::from_ne_bytes
from_ne_bytes32(b) == <<b[3] + 256 * b[4], b[1] + 256 * b[2]>>

\* A nom result: Ok((rest, value)), Err(..), or a panic inside the parser.
Done(v, rest) == [st |-> "ok", val |-> v, rest |-> rest]
NomErr == [st |-> "err"]
Panicked == [st |-> "panic"]

\* parse::u16
u16(input) ==
    IF Len(input) < 2 THEN NomErr
    ELSE Done(input[1] + 256 * input[2], Drop(input, 2))

\* parse::u32
u32(input) ==
    IF Len(input) < 4 THEN NomErr
    ELSE Done(from_ne_bytes32(Take(input, 4)), Drop(input, 4))

\* a u32 that TryFromPrimitive accepts when it is at most `last`, and that
\* panics in `.expect(..)` otherwise
enum_u32(last, input) ==
    LET a == u32(input) IN
    IF a.st # "ok" THEN a
    ELSE IF a.val[1] # 0 \/ a.val[2] > last THEN Panicked
    ELSE Done(a.val[2], a.rest)

\* parse::controller_type
controller_type(input) == enum_u32(TY_LAST, input)
\* parse::zone_type
zone_type(input) == enum_u32(ZONE_TY_LAST, input)
\* parse::color_mode
color_mode(input) == enum_u32(COLOR_MODE_LAST, input)

\* std::str::from_utf8: well-formed UTF-8 (Unicode table 3-7)
IsCont(b) == b >= 128 /\ b <= 191
RECURSIVE Utf8From(_, _)
Utf8From(s, i) ==
    IF i > Len(s) THEN TRUE
    ELSE LET b == s[i] IN
         IF b < 128 THEN Utf8From(s, i + 1)
         ELSE IF b >= 194 /\ b <= 223
         THEN i + 1 <= Len(s) /\ IsCont(s[i + 1]) /\ Utf8From(s, i + 2)
         ELSE IF b >= 224 /\ b <= 239
         THEN /\ i + 2 <= Len(s)
              /\ IsCont(s[i + 1]) /\ IsCont(s[i + 2])
              /\ (b = 224 => s[i + 1] >= 160)
              /\ (b = 237 => s[i + 1] <= 159)
              /\ Utf8From(s, i + 3)
         ELSE IF b >= 240 /\ b <= 244
         THEN /\ i + 3 <= Len(s)
              /\ IsCont(s[i + 1]) /\ IsCont(s[i + 2]) /\ IsCont(s[i + 3])
              /\ (b = 240 => s[i + 1] >= 144)
              /\ (b = 244 => s[i + 1] <= 143)
              /\ Utf8From(s, i + 4)
         ELSE FALSE
from_utf8(s) == (\A i \in 1..Len(s) : s[i] < 128) \/ Utf8From(s, 1)

\* `len_with_terminator - 1` on a u16: at 0 the subtraction overflows, which
\* panics when the build checks overflow and wraps to 65535 when it does not.
\* The result is the number of bytes to take, or -1 for the panic.
ContentLen(len_with_terminator) ==
    IF len_with_terminator >= 1 THEN len_with_terminator - 1
    ELSE IF overflow_checks THEN 0 - 1
    ELSE (len_with_terminator - 1) % 65536

\* `tag(b"\0")`
IsTerminator(b) == b = 0

\* parse::null_terminated_string: take(len - 1), from_utf8(..).expect(..),
\* tag(b"\0")
null_terminated_string(len_with_terminator, input) ==
    LET n == ContentLen(len_with_terminator) IN
    IF n < 0 THEN Panicked
    ELSE IF Len(input) < n THEN NomErr
    ELSE LET string == Take(input, n)
             rest == Drop(input, n)
         IN IF ~from_utf8(string) THEN Panicked
            ELSE IF Len(rest) < 1 \/ ~IsTerminator(rest[1]) THEN NomErr
            ELSE Done(string, Drop(rest, 1))

\* Rgb(r, g, b)
Rgb(r, g, b) == <<r, g, b>>

ColorFromLastBytes(b) == Rgb(b[2], b[3], b[4])
\* `Rgb(color_bytes[0], color_bytes[1], color_bytes[2])`
ColorOfBytes(b) == Rgb(b[1], b[2], b[3])

\* parse::color
color(input) ==
    LET a == u32(input) IN
    IF a.st # "ok" THEN a
    ELSE Done(ColorOfBytes(to_ne_bytes32(a.val)), a.rest)

\* the product of two u32 as eight bytes, the least significant first: long
\* multiplication on their bytes
RECURSIVE Column(_, _, _, _)
Column(x, y, k, i) ==
    IF i > 4 THEN 0
    ELSE (IF k + 2 - i \in 1..4 THEN x[i] * y[k + 2 - i] ELSE 0) + Column(x, y, k, i + 1)
RECURSIVE ProductBytes(_, _, _, _)
ProductBytes(x, y, k, carry) ==
    IF k > 7 THEN <<>>
    ELSE LET t == Column(x, y, k, 1) + carry
         IN <<t % 256>> \o ProductBytes(x, y, k + 1, t \div 256)

\* `(height * width) as usize` on two u32: a product of 2^32 or more panics
\* when the build checks overflow and wraps when it does not.  The result is
\* the number of cells to read, or -1 for the panic.
CellCount(height, width) ==
    LET p == ProductBytes(to_ne_bytes32(height), to_ne_bytes32(width), 0, 0)
        fits == Drop(p, 4) = <<0, 0, 0, 0>>
    IN IF ~fits /\ overflow_checks THEN 0 - 1
       ELSE as_usize(from_ne_bytes32(Take(p, 4)))

\* Option<ZoneMatrix>
None == [some |-> FALSE]
Some(m) == [some |-> TRUE, matrix |-> m]

\* `if matrix_len == 0 { (input, None) } else { zone_matrix(input)? }`
MatrixPresent(matrix_len) == matrix_len # 0

\* b"ORGB"
ORGB == <<79, 82, 71, 66>>
\* `tag(b"ORGB")`
tag_ORGB(input) ==
    IF Len(input) < 4 \/ Take(input, 4) # ORGB THEN NomErr
    ELSE Done(ORGB, Drop(input, 4))

\* A parser function of parse:: is a run of lines
\*     let (input, x) = p(input)?;
\* each starting where the line before it stopped, the first failure ending
\* the function, and then `Ok((input, T { .. }))` from the x of some lines.
\* Line(x, p, arg) is one such line: p names the parser, and arg the x of the
\* earlier line that the parser is called with ("" when there is none).
\* Count(x, p, n) is the line `let (input, x) = count(p, n as usize)(input)?;`.
Line(x, p, arg) == [x |-> x, p |-> p, arg |-> arg, count |-> FALSE]
Count(x, p, n) == [x |-> x, p |-> p, arg |-> n, count |-> TRUE]
RECURSIVE lines(_, _, _)
\* `Ok((input, T { fields }))` behind the lines
Ok(r, fields) ==
    IF r.st # "ok" THEN r ELSE Done([f \in fields |-> r.val[f]], r.rest)

\* parse::led
led(input) ==
    Ok(lines(<<Line("name_len", "u16", ""),
               Line("name", "null_terminated_string", "name_len"),
               Line("value", "u32", "")>>, input, <<>>),
       {"name", "value"})

\* parse::zone_matrix
zone_matrix(input) ==
    Ok(lines(<<Line("height", "u32", ""),
               Line("width", "u32", ""),
               Count("data", "u32", "height * width")>>, input, <<>>),
       {"height", "width", "data"})

\* parse::zone
zone(input) ==
    Ok(lines(<<Line("name_len", "u16", ""),
               Line("name", "null_terminated_string", "name_len"),
               Line("ty", "zone_type", ""),
               Line("leds_min", "u32", ""),
               Line("leds_max", "u32", ""),
               Line("leds_count", "u32", ""),
               Line("matrix_len", "u16", ""),
               Line("matrix", "if zone_matrix", "matrix_len")>>, input, <<>>),
       {"name", "ty", "leds_min", "leds_max", "leds_count", "matrix"})

\* parse::mode
mode(input) ==
    Ok(lines(<<Line("name_len", "u16", ""),
               Line("name", "null_terminated_string", "name_len"),
               Line("value", "u32", ""),
               Line("flags", "u32", ""),
               Line("speed_min", "u32", ""),
               Line("speed_max", "u32", ""),
               Line("colors_min", "u32", ""),
               Line("colors_max", "u32", ""),
               Line("speed", "u32", ""),
               Line("direction", "u32", ""),
               Line("color_mode", "color_mode", ""),
               Line("num_colors", "u16", ""),
               Count("colors", "color", "num_colors")>>, input, <<>>),
       {"name", "value", "flags", "speed_min", "speed_max", "colors_min",
        "colors_max", "speed", "direction", "color_mode", "colors"})

\* the parser a line names, on the input
parser(p, input) ==
    CASE p = "u16" -> u16(input)
      [] p = "u32" -> u32(input)
      [] p = "tag(ORGB)" -> tag_ORGB(input)
      [] p = "controller_type" -> controller_type(input)
      [] p = "zone_type" -> zone_type(input)
      [] p = "color_mode" -> color_mode(input)
      [] p = "color" -> color(input)
      [] p = "led" -> led(input)
      [] p = "zone" -> zone(input)
      [] p = "mode" -> mode(input)

\* nom::multi::count: n runs of the parser p, stopping at the first failure.
\* counted(p, n, got, a) goes on from the run that ended as a, with n runs
\* still to make and got holding the values of the runs before it.
RECURSIVE counted(_, _, _, _)
counted(p, n, got, a) ==
    IF a.st # "ok" THEN a
    ELSE IF n = 0 THEN Done(Append(got, a.val), a.rest)
    ELSE counted(p, n - 1, Append(got, a.val), parser(p, a.rest))
count(p, n, input) ==
    IF n = 0 THEN Done(<<>>, input) ELSE counted(p, n - 1, <<>>, parser(p, input))

\* one line on the input, x holding what the lines before it produced
line(l, x, input) ==
    CASE l.p = "null_terminated_string" -> null_terminated_string(x[l.arg], input)
      [] l.p = "if zone_matrix" ->
           IF MatrixPresent(x[l.arg])
           THEN LET m == zone_matrix(input)
                IN IF m.st # "ok" THEN m ELSE Done(Some(m.val), m.rest)
           ELSE Done(None, input)
      [] l.count ->
           LET n == IF l.arg = "height * width" THEN CellCount(x.height, x.width)
                    ELSE x[l.arg]
           IN IF n < 0 THEN Panicked ELSE count(l.p, n, input)
      [] OTHER -> parser(l.p, input)

\* the lines ls behind a line that ended as a
then(ls, x, a) ==
    IF a.st # "ok" THEN a ELSE lines(Tail(ls), a.rest, x @@ (Head(ls).x :> a.val))
lines(ls, input, x) ==
    IF ls = <<>> THEN Done(x, input) ELSE then(ls, x, line(Head(ls), x, input))

\* what a decoder that enforced the ControllerData invariants would accept
CountsAgree(num_modes, active_mode, num_leds, num_colors) ==
    num_leds = num_colors /\ as_usize(active_mode) < num_modes
\* parse::controller_data compares none of the counts it reads
CountsAccepted(num_modes, active_mode, num_leds, num_colors) == TRUE

\* parse::controller_data
controller_data(input) ==
    LET r == lines(<<Line("size", "u32", ""),
                     Line("ty", "controller_type", ""),
                     Line("name_len", "u16", ""),
                     Line("name", "null_terminated_string", "name_len"),
                     Line("description_len", "u16", ""),
                     Line("description", "null_terminated_string", "description_len"),
                     Line("version_len", "u16", ""),
                     Line("version", "null_terminated_string", "version_len"),
                     Line("serial_len", "u16", ""),
                     Line("serial", "null_terminated_string", "serial_len"),
                     Line("location_len", "u16", ""),
                     Line("location", "null_terminated_string", "location_len"),
                     Line("num_modes", "u16", ""),
                     Line("active_mode", "u32", ""),
                     Count("modes", "mode", "num_modes"),
                     Line("num_zones", "u16", ""),
                     Count("zones", "zone", "num_zones"),
                     Line("num_leds", "u16", ""),
                     Count("leds", "led", "num_leds"),
                     Line("num_colors", "u16", ""),
                     Count("colors", "color", "num_colors")>>, input, <<>>)
    IN IF r.st = "ok" /\ ~CountsAccepted(r.val.num_modes, r.val.active_mode,
                                         r.val.num_leds, r.val.num_colors)
       THEN NomErr
       ELSE Ok(r, {"ty", "name", "description", "version", "serial", "location",
                   "modes", "active_mode", "zones", "leds", "colors"})

\* parse::packet_header
packet_header(input) ==
    Ok(lines(<<Line("_", "tag(ORGB)", ""),
               Line("dev_idx", "u32", ""),
               Line("pkt_id", "u32", ""),
               Line("pkt_size", "u32", "")>>, input, <<>>),
       {"dev_idx", "pkt_id", "pkt_size"})

\* nom::combinator::map(parser, variant)
map(a, variant) == IF a.st # "ok" THEN a ELSE Done(Resp(variant, a.val), a.rest)

VersionIdCountsControllers(pkt_id) ==
    CASE pkt_id = U32(ID_CONTROLLER_COUNT) -> "ControllerCount"
      [] pkt_id = U32(ID_CONTROLLER_DATA) -> "ControllerData"
      [] pkt_id = U32(ID_PROTOCOL_VERSION) -> "ControllerCount"
      [] pkt_id = U32(ID_DEVICE_LIST_UPDATED) -> "DeviceListUpdated"
      [] OTHER -> "panic"
\* the arms of `match header.pkt_id` in parse::response
VariantOf(pkt_id) ==
    CASE pkt_id = U32(ID_CONTROLLER_COUNT) -> "ControllerCount"
      [] pkt_id = U32(ID_CONTROLLER_DATA) -> "ControllerData"
      [] pkt_id = U32(ID_PROTOCOL_VERSION) -> "ProtocolVersion"
      [] pkt_id = U32(ID_DEVICE_LIST_UPDATED) -> "DeviceListUpdated"
      [] OTHER -> "panic"

\* parse::response
response(header, input) ==
    LET variant == VariantOf(header.pkt_id) IN
    CASE variant = "ControllerData" -> map(controller_data(input), variant)
      [] variant = "DeviceListUpdated" -> Done(DeviceListUpdated, input)
      [] variant = "panic" -> Panicked
      [] OTHER -> map(u32(input), variant)

LeftoverIgnored(rest) == TRUE
\* `assert_eq!(rest.len(), 0)`
NoUnparsedData(rest) == Len(rest) = 0

\* the header buffer of Response::read_from
HEADER_LEN == 16

\* Response::read_from on the unread bytes of a stream whose peer has closed
\* behind them.  The result tells how the call ended ("ok", "io" for the Err of
\* a short read, "panic"), the response, and how many bytes the call took off
\* the stream (a short read_exact takes all that was left).
ReadResult(st, resp, taken) == [st |-> st, resp |-> resp, taken |-> taken]
Response_read_from(stream) ==
    IF Len(stream) < HEADER_LEN THEN ReadResult("io", NoResp, Len(stream)) ELSE
    LET header == packet_header(Take(stream, HEADER_LEN)) IN
    IF header.st # "ok" THEN ReadResult("panic", NoResp, HEADER_LEN) ELSE
    LET size == as_usize(header.val.pkt_size)
        body == Drop(stream, HEADER_LEN)
    IN
    IF Len(body) < size THEN ReadResult("io", NoResp, Len(stream)) ELSE
    LET r == response(header.val, Take(body, size)) IN
    IF r.st # "ok" \/ ~NoUnparsedData(r.rest)
    THEN ReadResult("panic", NoResp, HEADER_LEN + size)
    ELSE ReadResult("ok", r.val, HEADER_LEN + size)

(***************************************************************************)
(* orgb::protocol, the send path.                                          *)
(***************************************************************************)
\* A color slice `&[Rgb]` is held as its length n and a pattern it cycles
\* through, so that a long slice stays small in the state.
Colors(pattern, n) == [i \in 1..n |-> pattern[((i - 1) % Len(pattern)) + 1]]

\* Request values.  controller_idx and v are u32; `str` is the name's UTF-8
\* bytes.
ReqControllerCount == [tag |-> "ControllerCount"]
ReqControllerData(i) == [tag |-> "ControllerData", controller_idx |-> i]
ReqProtocolVersion(v) == [tag |-> "ProtocolVersion", v |-> v]
ReqSetClientName(str) == [tag |-> "SetClientName", name |-> str]
ReqUpdateLeds(i, pattern, n) ==
    [tag |-> "UpdateLeds", controller_idx |-> i, pattern |-> pattern, n |-> n]
UnimplementedTags ==
    {"ResizeZone", "UpdateZoneLeds", "UpdateSingleLed", "SetCustomMode",
     "UpdateMode", "SaveMode"}
ReqUnimplemented(t) == [tag |-> t]

\* the bytes unparse::u16 / unparse::u32 / unparse::color append to output
unparse_u16(x) == to_ne_bytes16(x)
unparse_u32(x) == to_ne_bytes32(x)
unparse_color(c) == unparse_u32(from_ne_bytes32(<<c[1], c[2], c[3], 0>>))

\* `for c in colors { unparse::color(*c, output) }`, four bytes a color
unparse_colors(colors) ==
    [i \in 1..(4 * Len(colors)) |->
        unparse_color(colors[((i - 1) \div 4) + 1])[((i - 1) % 4) + 1]]

\* `x as u32` and `x as u16` on a usize (every length of the model is below
\* 2^31, where `as u32` keeps the value)
as_u32(x) == U32(x)
as_u16(x) == x % 65536

\* the message ids of the two requests that carry a payload of their own
ID_SET_CLIENT_NAME == 50
ID_UPDATE_LEDS == 1050

\* the `output` Vec when write_to reaches `writer.write`, or the panic
Built(output) == [st |-> "ok", output |-> output]
TodoIsNoOp(output) == Built(output)
\* `todo!()`
todo(output) == Panicked

Encoded(req) ==
    LET output == ORGB IN
    CASE req.tag = "ControllerCount" ->
            Built(output \o unparse_u32(U32(0)) \o unparse_u32(U32(ID_CONTROLLER_COUNT))
                  \o unparse_u32(U32(0)))
      [] req.tag = "ProtocolVersion" ->
            Built(output \o unparse_u32(U32(0)) \o unparse_u32(U32(ID_PROTOCOL_VERSION))
                  \o unparse_u32(U32(4)) \o unparse_u32(req.v))
      [] req.tag = "ControllerData" ->
            Built(output \o unparse_u32(req.controller_idx)
                  \o unparse_u32(U32(ID_CONTROLLER_DATA)) \o unparse_u32(U32(0)))
      [] req.tag = "SetClientName" ->
            LET len == Len(req.name) + 1 IN
            Built(output \o unparse_u32(U32(0)) \o unparse_u32(U32(ID_SET_CLIENT_NAME))
                  \o unparse_u32(as_u32(len)) \o req.name \o <<0>>)
      [] req.tag = "UpdateLeds" ->
            LET colors == Colors(req.pattern, req.n)
                len == 4 + 2 + 4 * Len(colors)
            IN Built(output \o unparse_u32(req.controller_idx)
                     \o unparse_u32(U32(ID_UPDATE_LEDS)) \o unparse_u32(as_u32(len))
                     \o unparse_u32(as_u32(len)) \o unparse_u16(as_u16(Len(colors)))
                     \o unparse_colors(colors))
      [] OTHER -> todo(output)

\* `writer.write(&output)`: one write call, which takes `accepted` bytes of
\* the buffer (any number from 1 to all of them) or fails (accepted = 0)
\* without taking any.
WriteResult(st, bytes) == [st |-> st, wrote |-> bytes]
write(output, accepted) ==
    IF accepted = 0 THEN WriteResult("err", <<>>)
    ELSE WriteResult("ok", Take(output, accepted))

\* Request::write_to: `writer.write(&output).map(|_| ())`
write_to(req, accepted) ==
    LET e == Encoded(req) IN
    IF e.st # "ok" THEN WriteResult("panic", <<>>)
    ELSE write(e.output, accepted)

\* Connection::send: `.expect("Could not write to the TcpStream")`
Connection_send(req, accepted) ==
    LET r == write_to(req, accepted) IN
    IF r.st = "ok" THEN r ELSE WriteResult("panic", r.wrote)

(***************************************************************************)
(* The server's side of the wire: the layout parse::controller_data reads, *)
(* written out for the values the server sends.                            *)
(***************************************************************************)
RECURSIVE Concat(_)
Concat(seqs) == IF seqs = <<>> THEN <<>> ELSE Head(seqs) \o Concat(Tail(seqs))

\* apply f to every element and join the results
Each(f(_), s) == Concat([i \in 1..Len(s) |-> f(s[i])])

WireString(s) == to_ne_bytes16(Len(s) + 1) \o s \o <<0>>
WireColor(c) == <<c[1], c[2], c[3], 0>>
WireLed(l) == WireString(l.name) \o to_ne_bytes32(l.value)
WireMatrix(m) ==
    to_ne_bytes32(m.height) \o to_ne_bytes32(m.width) \o Each(to_ne_bytes32, m.data)
WireZone(z) ==
    WireString(z.name) \o to_ne_bytes32(U32(z.ty)) \o to_ne_bytes32(z.leds_min)
    \o to_ne_bytes32(z.leds_max) \o to_ne_bytes32(z.leds_count)
    \o (IF z.matrix.some
        THEN to_ne_bytes16(8 + 4 * Len(z.matrix.matrix.data)) \o WireMatrix(z.matrix.matrix)
        ELSE to_ne_bytes16(0))
WireMode(m) ==
    WireString(m.name) \o to_ne_bytes32(m.value) \o to_ne_bytes32(m.flags)
    \o to_ne_bytes32(m.speed_min) \o to_ne_bytes32(m.speed_max)
    \o to_ne_bytes32(m.colors_min) \o to_ne_bytes32(m.colors_max)
    \o to_ne_bytes32(m.speed) \o to_ne_bytes32(m.direction)
    \o to_ne_bytes32(U32(m.color_mode)) \o to_ne_bytes16(Len(m.colors))
    \o Each(WireColor, m.colors)
WireControllerBody(cd) ==
    to_ne_bytes32(U32(cd.ty)) \o WireString(cd.name) \o WireString(cd.description)
    \o WireString(cd.version) \o WireString(cd.serial) \o WireString(cd.location)
    \o to_ne_bytes16(Len(cd.modes)) \o to_ne_bytes32(cd.active_mode)
    \o Each(WireMode, cd.modes)
    \o to_ne_bytes16(Len(cd.zones)) \o Each(WireZone, cd.zones)
    \o to_ne_bytes16(Len(cd.leds)) \o Each(WireLed, cd.leds)
    \o to_ne_bytes16(Len(cd.colors)) \o Each(WireColor, cd.colors)
WireControllerData(cd) ==
    LET body == WireControllerBody(cd) IN to_ne_bytes32(U32(4 + Len(body))) \o body
\* a whole packet: header and payload
WirePacket(dev_idx, pkt_id, payload) ==
    ORGB \o to_ne_bytes32(U32(dev_idx)) \o to_ne_bytes32(U32(pkt_id))
    \o to_ne_bytes32(U32(Len(payload))) \o payload

(***************************************************************************)
(* The reader thread on the bytes of the socket.                           *)
(***************************************************************************)
\* a packet whose header declares `size` whatever follows it
RawPacket(magic, pkt_id, size, payload) ==
    magic \o to_ne_bytes32(U32(0)) \o to_ne_bytes32(U32(pkt_id))
    \o to_ne_bytes32(U32(size)) \o payload

\* the values the server's controller data is built from
Name == <<110>>
Red == Rgb(255, 0, 0)
Blue == Rgb(0, 0, 255)
\* 0xFFFFFFFF, the matrix cell that maps to no LED
SENTINEL == <<65535, 65535>>
PlainZone ==
    [name |-> Name, ty |-> 1, leds_min |-> U32(1), leds_max |-> U32(8),
     leds_count |-> U32(2), matrix |-> None]
MatrixZone ==
    [name |-> Name, ty |-> ZONE_TY_LAST, leds_min |-> U32(2), leds_max |-> U32(2),
     leds_count |-> U32(2),
     matrix |-> Some([height |-> U32(1), width |-> U32(2), data |-> <<U32(0), SENTINEL>>])]
Static ==
    [name |-> Name, value |-> U32(0), flags |-> U32(32), speed_min |-> U32(0),
     speed_max |-> U32(0), colors_min |-> U32(0), colors_max |-> U32(1),
     speed |-> U32(0), direction |-> U32(0), color_mode |-> 1, colors |-> <<Red>>]
Controller(ty, modes, active_mode, zones, leds, colors) ==
    [ty |-> ty, name |-> Name, description |-> <<>>, version |-> Name,
     serial |-> <<195, 169>>, location |-> Name, modes |-> modes,
     active_mode |-> U32(active_mode), zones |-> zones, leds |-> leds, colors |-> colors]
Leds(n) == [i \in 1..n |-> [name |-> Name, value |-> U32(i)]]
Dram == Controller(TY_DRAM, <<Static>>, 0, <<PlainZone, MatrixZone>>, Leds(2), <<Red, Blue>>)

\* a byte string with one byte replaced
Patched(bytes, i, b) == [bytes EXCEPT ![i] = b]

\* The packets that decode,
GoodWire ==
    {WirePacket(0, ID_CONTROLLER_COUNT, to_ne_bytes32(U32(1))),
     WirePacket(0, ID_PROTOCOL_VERSION, to_ne_bytes32(U32(3))),
     WirePacket(0, ID_DEVICE_LIST_UPDATED, <<>>),
     WirePacket(0, ID_CONTROLLER_DATA, WireControllerData(Dram))}
\* and one for each way a read fails.
BadWire ==
    {RawPacket(<<79, 82, 71, 67>>, ID_CONTROLLER_COUNT, 4, to_ne_bytes32(U32(1))), \* bad magic
     WirePacket(0, ID_SET_CLIENT_NAME, <<>>),                      \* unknown message id
     WirePacket(0, ID_CONTROLLER_DATA,                             \* unknown controller type
                WireControllerData(Controller(TY_LAST + 1, <<>>, 0, <<>>, <<>>, <<>>))),
     WirePacket(0, ID_CONTROLLER_DATA,                             \* name not UTF-8
                Patched(WireControllerData(Dram), 11, 255)),
     WirePacket(0, ID_CONTROLLER_DATA,                             \* name not terminated
                Patched(WireControllerData(Dram), 12, 1)),
     WirePacket(0, ID_CONTROLLER_DATA,                             \* name of length 0
                Patched(WireControllerData(Dram), 9, 0)),
     WirePacket(0, ID_CONTROLLER_COUNT, <<1, 0>>),                 \* truncated payload
     WirePacket(0, ID_CONTROLLER_DATA,                             \* truncated payload
                Take(WireControllerData(Dram), 40)),
     WirePacket(0, ID_PROTOCOL_VERSION, to_ne_bytes32(U32(3)) \o <<0>>), \* leftover bytes
     WirePacket(0, ID_DEVICE_LIST_UPDATED, <<7>>),                 \* leftover bytes
     WirePacket(0, ID_CONTROLLER_DATA, WireControllerData(Dram) \o <<0>>), \* leftover bytes
     Take(WirePacket(0, ID_CONTROLLER_COUNT, to_ne_bytes32(U32(1))), 10), \* the header cut short
     RawPacket(ORGB, ID_CONTROLLER_COUNT, 40, <<1, 0>>),           \* the payload cut short
     \* a size that declares the two bytes that follow and two bytes more
     RawPacket(ORGB, ID_CONTROLLER_COUNT, 4, <<1, 0>>)}

\* What the server writes before it closes: up to MaxFrames packets, with at
\* most a notification behind a packet that fails.
MaxFrames == 2
RECURSIVE StreamsOf(_)
StreamsOf(n) ==
    IF n = 0 THEN {<<>>}
    ELSE {<<>>}
         \cup {p \o s : p \in GoodWire, s \in StreamsOf(n - 1)}
         \cup {p \o s : p \in BadWire,
                        s \in {<<>>, WirePacket(0, ID_DEVICE_LIST_UPDATED, <<>>)}}
WireStreams == StreamsOf(MaxFrames)

ReaderResyncs == "read"
\* `Response::read_from(&mut con).expect("Could not read from the TcpStream")`
\* and the panics inside read_from end the thread
ReaderAfterFailure == "dead"

\* One turn of the reader's loop on the bytes of the socket: as ReaderRead,
\* with the packet framed and decoded byte by byte.
WireRead ==
    /\ Alive
    /\ reader = "read"
    /\ LET r == Response_read_from(wire)
       IN /\ wire' = Drop(wire, r.taken)
          /\ frames' = Append(frames, [st |-> r.st, resp |-> r.resp,
                                       bytes |-> Take(wire, r.taken)])
          /\ IF r.st # "ok"
             THEN /\ reader' = ReaderAfterFailure
                  /\ UNCHANGED <<held, devices_updated, arrived, unseen>>
             ELSE /\ arrived' = Append(arrived, r.resp)
                  /\ IF IsNotification(r.resp)
                     THEN /\ devices_updated' = FlagAfterStore
                          /\ unseen' = unseen + 1
                          /\ UNCHANGED <<reader, held>>
                     ELSE /\ held' = r.resp
                          /\ reader' = "send"
                          /\ UNCHANGED <<devices_updated, unseen>>
    /\ UNCHANGED <<fg, num_tries, started, con, sock_in, npushed, wrote, mainVars,
                   smVars, received, reset_log, pending_sends, awaiting, enumerations,
                   cio, sends, overflow_checks>>

\* The server has written a stream and closed; the build checks overflow or
\* does not.
WireInit ==
    /\ ProgramInit
    /\ wire \in WireStreams
    /\ frames = <<>>
    /\ cio = NoCodecOp
    /\ sends = <<>>
    /\ overflow_checks \in BOOLEAN

\* The Connection under a caller that polls and receives.
WireNext ==
    \/ \E accepted \in BOOLEAN : Connect(accepted)
    \/ StartReturn("api")
    \/ WireRead
    \/ ReaderSend
    \/ RecvDisconnected
    \/ ClientRecv
    \/ ClientReset

WireSpec == WireInit /\ [][WireNext]_vars

(***************************************************************************)
(* Connection::send on the bytes of the socket.                            *)
(***************************************************************************)
\* send() calls over one run
MaxSends == 2

SendRequests ==
    {ReqControllerCount, ReqControllerData(U32(1)), ReqProtocolVersion(U32(3)),
     ReqSetClientName(Name), ReqUpdateLeds(U32(1), <<Red, Blue>>, 1)}
    \cup {ReqUnimplemented(t) : t \in UnimplementedTags}

\* what one write call may take of a buffer: nothing (an error), its first
\* byte, its header, all of it
WriteChoices(req) ==
    LET e == Encoded(req) IN
    IF e.st # "ok" THEN {0}
    ELSE {k \in {0, 1, HEADER_LEN, Len(e.output)} : k <= Len(e.output)}

\* send(request): the bytes the socket took are appended to the server's view
\* (this program looks at the bytes only, the packet-level record of the last
\* request stays as it is)
ByteSend(req, accepted) ==
    /\ fg = "api"
    /\ Len(sends) < MaxSends
    /\ LET r == Connection_send(req, accepted)
       IN /\ sends' = Append(sends, [req |-> req, st |-> r.st, wrote |-> r.wrote])
          /\ fg' = IF r.st = "ok" THEN "api" ELSE "panicked"
    /\ UNCHANGED <<num_tries, started, connVars, mainVars, smVars, histVars,
                   wire, frames, cio, overflow_checks>>

SendInit ==
    /\ ProgramInit
    /\ wire = <<>>
    /\ frames = <<>>
    /\ cio = NoCodecOp
    /\ sends = <<>>
    /\ overflow_checks \in BOOLEAN

SendNext ==
    \/ \E accepted \in BOOLEAN : Connect(accepted)
    \/ StartReturn("api")
    \/ \E req \in SendRequests : \E accepted \in WriteChoices(req) : ByteSend(req, accepted)

SendSpec == SendInit /\ [][SendNext]_vars

\* the bytes the server has received
RECURSIVE SockOut(_)
SockOut(log) == IF log = <<>> THEN <<>> ELSE Head(log).wrote \o SockOut(Tail(log))

(***************************************************************************)
(* The codec's functions, each applied once to an input drawn from a       *)
(* bounded set.  cio keeps the input and the result; a byte string that    *)
(* may be long is kept as its length and its first PeekLen bytes.          *)
(***************************************************************************)
PeekLen == 32
Seen(s) == [len |-> Len(s), peek |-> Take(s, Min(Len(s), PeekLen))]

\* color slices of up to MaxColors colors, and one that a u16 cannot count
MaxColors == 2
U16_RANGE == 256 * 256
EncodeRequests ==
    {ReqControllerCount}
    \cup {ReqControllerData(i) : i \in {U32(0), U32(1), U32(258)}}
    \cup {ReqProtocolVersion(v) : v \in {U32(0), U32(3), SENTINEL}}
    \cup {ReqSetClientName(str) : str \in {<<>>, Name, <<79, 82, 71, 66>>, <<195, 169>>}}
    \cup {ReqUpdateLeds(i, pattern, n) :
            i \in {U32(0), U32(1)}, pattern \in {<<Red, Blue>>, <<Rgb(1, 2, 3)>>},
            n \in 0..MaxColors}
    \cup {ReqUpdateLeds(U32(0), <<Red, Blue>>, U16_RANGE)}
    \cup {ReqUnimplemented(t) : t \in UnimplementedTags}

\* Request::write_to up to the write call: the bytes handed to the writer
Encode(req) ==
    /\ cio = NoCodecOp
    /\ LET e == Encoded(req)
       IN cio' = [op |-> "write_to", req |-> req, st |-> e.st,
                  out |-> IF e.st = "ok" THEN Seen(e.output) ELSE Seen(<<>>)]
    /\ UNCHANGED <<fg, num_tries, started, connVars, mainVars, smVars, histVars,
                   wire, frames, sends, overflow_checks>>

\* Buffers for parse::null_terminated_string: n bytes cycling through a
\* pattern, then a tail.  The longest holds the 65535 bytes that a wrapped
\* `0 - 1` asks for.
MaxContent == 3
StringBuffers ==
    {[pattern |-> p, n |-> n, tail |-> t] :
        p \in {<<97>>, <<195, 169>>, <<255>>}, n \in 0..MaxContent,
        t \in {<<>>, <<0>>, <<0, 7>>, <<1>>}}
    \cup {[pattern |-> <<97>>, n |-> U16_RANGE - 1, tail |-> <<0, 7>>]}
Buffer(d) == Repeat(d.pattern, d.n) \o d.tail

DecodeString(len, d) ==
    /\ cio = NoCodecOp
    /\ LET r == null_terminated_string(len, Buffer(d))
       IN cio' = [op |-> "null_terminated_string", len |-> len, buf |-> d, st |-> r.st,
                  val |-> IF r.st = "ok" THEN Seen(r.val) ELSE Seen(<<>>),
                  rest |-> IF r.st = "ok" THEN Seen(r.rest) ELSE Seen(<<>>)]
    /\ UNCHANGED <<fg, num_tries, started, connVars, mainVars, smVars, histVars,
                   wire, frames, sends, overflow_checks>>

\* Zones as the server may lay them out: the fields up to the matrix length,
\* then a height, a width and cells when `dims` is set, then a tail.
MaxCells == 2
RECURSIVE CellSeqs(_)
CellSeqs(n) ==
    IF n = 0 THEN {<<>>}
    ELSE {<<>>} \cup {<<c>> \o s : c \in {U32(0), SENTINEL}, s \in CellSeqs(n - 1)}
ZoneInputs ==
    {[matrix_len |-> ml, dims |-> FALSE, height |-> 0, width |-> 0, cells |-> <<>>,
      tail |-> t] : ml \in {0, 8}, t \in {<<>>, <<9, 9, 9, 9, 9, 9, 9, 9>>}}
    \cup {[matrix_len |-> ml, dims |-> TRUE, height |-> hw[1], width |-> hw[2],
           cells |-> c, tail |-> t] :
            ml \in {0, 8, 16}, c \in CellSeqs(MaxCells), t \in {<<>>, <<9>>},
            hw \in {<<0, 0>>, <<1, 1>>, <<1, 2>>, <<2, 1>>, <<0, 3>>,
                    <<U16_RANGE, U16_RANGE>>}}
ZoneHead(zi) ==
    WireString(Name) \o to_ne_bytes32(U32(1)) \o to_ne_bytes32(U32(1))
    \o to_ne_bytes32(U32(8)) \o to_ne_bytes32(U32(2)) \o to_ne_bytes16(zi.matrix_len)
ZoneBehind(zi) ==
    (IF zi.dims
     THEN to_ne_bytes32(U32(zi.height)) \o to_ne_bytes32(U32(zi.width))
          \o Each(to_ne_bytes32, zi.cells)
     ELSE <<>>) \o zi.tail

DecodeZone(zi) ==
    /\ cio = NoCodecOp
    /\ cio' = [op |-> "zone", in |-> zi, out |-> zone(ZoneHead(zi) \o ZoneBehind(zi))]
    /\ UNCHANGED <<fg, num_tries, started, connVars, mainVars, smVars, histVars,
                   wire, frames, sends, overflow_checks>>

\* Controller data with every combination of counts, whether or not the LED
\* count equals the color count and the active mode is one of the modes.
MaxLeds == 2
ColorSeq(n) == [i \in 1..n |-> IF i % 2 = 1 THEN Red ELSE Blue]
Controllers ==
    {Controller(TY_DRAM, modes, active_mode, zones, Leds(nl), ColorSeq(nc)) :
        modes \in {<<>>, <<Static>>}, active_mode \in 0..1,
        zones \in {<<>>, <<PlainZone, MatrixZone>>},
        nl \in 0..MaxLeds, nc \in 0..MaxLeds}

DecodeControllerData(cd) ==
    /\ cio = NoCodecOp
    /\ cio' = [op |-> "controller_data", in |-> cd,
               out |-> controller_data(WireControllerData(cd))]
    /\ UNCHANGED <<fg, num_tries, started, connVars, mainVars, smVars, histVars,
                   wire, frames, sends, overflow_checks>>

\* the byte values colors and words are drawn from
SomeBytes == {0, 1, 128, 255}

\* unparse::color, then parse::color on what it wrote
EncodeColor(c) ==
    /\ cio = NoCodecOp
    /\ cio' = [op |-> "unparse_color", in |-> c, bytes |-> unparse_color(c),
               back |-> color(unparse_color(c))]
    /\ UNCHANGED <<fg, num_tries, started, connVars, mainVars, smVars, histVars,
                   wire, frames, sends, overflow_checks>>

\* parse::color on a 4-byte word
DecodeColor(w) ==
    /\ cio = NoCodecOp
    /\ cio' = [op |-> "color", in |-> w, out |-> color(w)]
    /\ UNCHANGED <<fg, num_tries, started, connVars, mainVars, smVars, histVars,
                   wire, frames, sends, overflow_checks>>

CodecInit ==
    /\ ProgramInit
    /\ wire = <<>>
    /\ frames = <<>>
    /\ cio = NoCodecOp
    /\ sends = <<>>
    /\ overflow_checks \in BOOLEAN

CodecNext ==
    \/ \E req \in EncodeRequests : Encode(req)
    \/ \E len \in 0..(MaxContent + 1) : \E d \in StringBuffers : DecodeString(len, d)
    \/ \E zi \in ZoneInputs : DecodeZone(zi)
    \/ \E cd \in Controllers : DecodeControllerData(cd)
    \/ \E c \in SomeBytes \X SomeBytes \X SomeBytes : EncodeColor(c)
    \/ \E w \in SomeBytes \X SomeBytes \X SomeBytes \X SomeBytes : DecodeColor(w)

CodecSpec == CodecInit /\ [][CodecNext]_vars

(***************************************************************************)
(* The properties of the byte-level receive path.                          *)
(***************************************************************************)
\* the fields of the header at the front of a frame's bytes
FrameMagic(bytes) == Take(bytes, 4)
FrameId(bytes) == from_ne_bytes32(SubSeq(bytes, 9, 12))
FrameSize(bytes) == as_usize(from_ne_bytes32(SubSeq(bytes, 13, 16)))
FramePayload(bytes) == Drop(bytes, HEADER_LEN)

\* the number of payload bytes that make up a response
PayloadLen(resp) ==
    CASE resp.tag = "DeviceListUpdated" -> 0
      [] resp.tag = "ControllerData" -> 4 + Len(WireControllerBody(resp.val))
      [] OTHER -> 4

\* the bytes the read_from calls have taken, in order
Consumed == Concat([i \in 1..Len(frames) |-> frames[i].bytes])

\* C11: every read_from call that returns a response took exactly the 16
\* header bytes and the pkt_size payload bytes the header declares, and the
\* response accounts for every payload byte; a call that fails returns no
\* response; the calls take the stream front to back with no byte skipped.
C11_Framing ==
    /\ \A i \in 1..Len(frames) :
          LET f == frames[i] IN
          /\ f.st = "ok" =>
                /\ Len(f.bytes) = HEADER_LEN + FrameSize(f.bytes)
                /\ PayloadLen(f.resp) = FrameSize(f.bytes)
          /\ f.st # "ok" => f.resp = NoResp
    /\ Consumed \o wire \in WireStreams

\* two packets framed back to back, the second a notification with a payload
C11_Witness ==
    /\ Len(frames) = 2
    /\ frames[1].st = "ok" /\ frames[1].resp.tag = "ControllerData"
    /\ frames[2].st = "panic"
    /\ frames[2].bytes = WirePacket(0, ID_DEVICE_LIST_UPDATED, <<7>>)

\* C12: a response's variant and value follow from the message id alone: 0
\* gives ControllerCount(u32), 1 ControllerData, 40 ProtocolVersion(u32), 100
\* DeviceListUpdated; any other id, or a magic other than "ORGB", gives no
\* response.
C12_IdSelectsResponse ==
    \A i \in 1..Len(frames) :
        LET f == frames[i]
            id == FrameId(f.bytes)
            word == from_ne_bytes32(FramePayload(f.bytes))
        IN Len(f.bytes) >= HEADER_LEN =>
            /\ FrameMagic(f.bytes) # ORGB => f.st # "ok"
            /\ id \notin {U32(0), U32(1), U32(40), U32(100)} => f.st # "ok"
            /\ f.st = "ok" =>
                  CASE id = U32(0) -> f.resp = Resp("ControllerCount", word)
                    [] id = U32(1) -> f.resp.tag = "ControllerData"
                    [] id = U32(40) -> f.resp = Resp("ProtocolVersion", word)
                    [] id = U32(100) -> f.resp = DeviceListUpdated
                    [] OTHER -> FALSE

\* a protocol version decoded, then a packet with message id 50
C12_Witness ==
    /\ Len(frames) = 2
    /\ frames[1].resp = Resp("ProtocolVersion", U32(3))
    /\ Len(frames[2].bytes) = HEADER_LEN
    /\ FrameId(frames[2].bytes) = U32(ID_SET_CLIENT_NAME)
    /\ frames[2].st = "panic"

\* C13: a read_from call that fails delivers nothing and ends the reader; once
\* the reader has ended no byte is read, no response is delivered, the flag is
\* not set; and after start() has returned no connection is attempted.
C13_NoRecovery ==
    [][/\ (Len(frames') > Len(frames) /\ frames'[Len(frames')].st # "ok") =>
              /\ reader' = "dead"
              /\ arrived' = arrived /\ held' = held
              /\ devices_updated' = devices_updated
       /\ reader = "dead" =>
              /\ reader' = "dead"
              /\ wire' = wire /\ frames' = frames
              /\ arrived' = arrived /\ held' = held /\ received' = received
              /\ (devices_updated' => devices_updated)
       /\ started =>
              /\ started'
              /\ fg' \notin {"connect", "connected"}
              /\ num_tries' = num_tries /\ con' = con
      ]_vars

\* the reader ended on a packet that does not decode, with bytes left unread
\* and the caller polling on
C13_Witness ==
    /\ reader = "dead" /\ started
    /\ frames # <<>> /\ frames[Len(frames)].st = "panic"
    /\ wire # <<>>
    /\ reset_log # <<>>

(***************************************************************************)
(* The properties of the byte-level send path.                             *)
(***************************************************************************)
\* C14: a send of an unimplemented request panics, and the socket takes no
\* byte of it.
C14_UnimplementedFailsLoudly ==
    \A i \in 1..Len(sends) :
        sends[i].req.tag \in UnimplementedTags =>
            /\ sends[i].st = "panic"
            /\ sends[i].wrote = <<>>
            /\ SockOut(sends) = SockOut(Take(sends, i - 1))
            /\ fg = "panicked"

\* a whole request on the stream, then a SaveMode that adds nothing to it
C14_Witness ==
    /\ Len(sends) = 2
    /\ sends[1].st = "ok" /\ SockOut(sends) = Encoded(sends[1].req).output
    /\ sends[2].req.tag = "SaveMode"

\* C15: a send that reports success has put the whole encoded request on the
\* stream.
C15_WholePackets ==
    \A i \in 1..Len(sends) :
        sends[i].st = "ok" => sends[i].wrote = Encoded(sends[i].req).output

(***************************************************************************)
(* The properties of the codec's functions.                                *)
(***************************************************************************)
\* the u32 at byte k of a buffer
FieldAt(b, k) == from_ne_bytes32(SubSeq(b, k, k + 3))

\* C16: every implemented request is "ORGB", the device index, the message id,
\* a size equal to the number of bytes behind the header, and the payload of
\* its variant; UpdateLeds of n colors carries the length 6 + 4n, the count n
\* and the n colors as [r, g, b, 0].
C16_RequestLayout ==
    (cio.op = "write_to" /\ cio.req.tag \notin UnimplementedTags) =>
        LET b == cio.out.peek
            len == cio.out.len
            req == cio.req
        IN /\ cio.st = "ok"
           /\ Take(b, 4) = <<79, 82, 71, 66>>
           /\ FieldAt(b, 13) = U32(len - 16)
           /\ CASE req.tag = "ControllerCount" ->
                     FieldAt(b, 5) = U32(0) /\ FieldAt(b, 9) = U32(0) /\ len = 16
                [] req.tag = "ControllerData" ->
                     FieldAt(b, 5) = req.controller_idx /\ FieldAt(b, 9) = U32(1) /\ len = 16
                [] req.tag = "ProtocolVersion" ->
                     /\ FieldAt(b, 5) = U32(0) /\ FieldAt(b, 9) = U32(40) /\ len = 20
                     /\ FieldAt(b, 17) = req.v
                [] req.tag = "SetClientName" ->
                     /\ FieldAt(b, 5) = U32(0) /\ FieldAt(b, 9) = U32(50)
                     /\ len = 16 + Len(req.name) + 1
                     /\ SubSeq(b, 17, len) = req.name \o <<0>>
                [] req.tag = "UpdateLeds" ->
                     /\ FieldAt(b, 5) = req.controller_idx /\ FieldAt(b, 9) = U32(1050)
                     /\ len = 22 + 4 * req.n
                     /\ FieldAt(b, 17) = U32(6 + 4 * req.n)
                     /\ b[21] + 256 * b[22] = req.n
                     /\ \A k \in 1..req.n :
                           22 + 4 * k <= Len(b) =>
                               LET c == req.pattern[((k - 1) % Len(req.pattern)) + 1]
                               IN SubSeq(b, 19 + 4 * k, 22 + 4 * k) = <<c[1], c[2], c[3], 0>>

\* the bytes of a string buffer
BufferLen(d) == d.n + Len(d.tail)
BufferAt(d, i) == IF i <= d.n THEN d.pattern[((i - 1) % Len(d.pattern)) + 1] ELSE d.tail[i - d.n]

\* C17: SetClientName of an N-byte name declares N+1 bytes and writes the name
\* and one zero byte; a string decoded under the length field L is the first
\* L-1 bytes of the buffer, the byte behind them is zero and is the last one
\* taken, and a buffer whose byte there is not zero is rejected - for every L
\* from 0 up.
C17_StringCodec ==
    /\ (cio.op = "write_to" /\ cio.req.tag = "SetClientName") =>
            /\ FieldAt(cio.out.peek, 13) = U32(Len(cio.req.name) + 1)
            /\ Drop(cio.out.peek, HEADER_LEN) = cio.req.name \o <<0>>
            /\ cio.out.len = HEADER_LEN + Len(cio.req.name) + 1
    /\ cio.op = "null_terminated_string" =>
            /\ cio.st = "ok" =>
                  /\ cio.val.len = cio.len - 1
                  /\ cio.rest.len = BufferLen(cio.buf) - cio.len
                  /\ cio.val.peek = Take(Buffer(cio.buf), Min(cio.len - 1, PeekLen))
                  /\ BufferAt(cio.buf, cio.len) = 0
            /\ (cio.len >= 1 /\ cio.len <= BufferLen(cio.buf)
                /\ BufferAt(cio.buf, cio.len) # 0) => cio.st # "ok"

\* the cells of a matrix of the given height and width number k
CellsNumber(k, height, width) ==
    IF height = 0 \/ width = 0 THEN k = 0
    ELSE k % width = 0 /\ k \div width = height

\* C18: a zone with matrix length 0 decodes to matrix = None and takes no byte
\* behind the length; a zone with another matrix length that decodes has the
\* height and the width of the wire and exactly height * width cells, each as
\* it is on the wire, 0xFFFFFFFF included, and takes no byte behind them.
C18_ZoneMatrix ==
    cio.op = "zone" =>
        LET zi == cio.in
            out == cio.out
        IN /\ zi.matrix_len = 0 =>
                 /\ out.st = "ok"
                 /\ ~out.val.matrix.some
                 /\ out.rest = ZoneBehind(zi)
           /\ (zi.matrix_len # 0 /\ out.st = "ok") =>
                 LET m == out.val.matrix.matrix IN
                 /\ out.val.matrix.some
                 /\ m.height = U32(zi.height) /\ m.width = U32(zi.width)
                 /\ CellsNumber(Len(m.data), zi.height, zi.width)
                 /\ m.data = Take(zi.cells, Len(m.data))
                 /\ out.rest = Drop(ZoneBehind(zi), 8 + 4 * Len(m.data))

\* C19: controller data decodes to the value on the wire, field by field,
\* with as many LEDs and as many colors as the wire counts, whether or not the
\* two counts are equal and whether or not the active mode is one of the modes.
C19_NoInvariantEnforced ==
    cio.op = "controller_data" =>
        /\ cio.out.st = "ok"
        /\ cio.out.rest = <<>>
        /\ cio.out.val = cio.in
        /\ Len(cio.out.val.leds) = Len(cio.in.leds)
        /\ Len(cio.out.val.colors) = Len(cio.in.colors)

\* two LEDs, one color and an active mode that is no mode
C19_Witness ==
    /\ cio.op = "controller_data"
    /\ cio.out.st = "ok"
    /\ Len(cio.out.val.leds) = 2 /\ Len(cio.out.val.colors) = 1
    /\ cio.out.val.modes = <<>> /\ cio.out.val.active_mode = U32(1)

\* C20: unparse::color writes [r, g, b, 0], parse::color reads Rgb(r, g, b)
\* back from it, and parse::color of any four bytes is the color of the first
\* three.
C20_ColorRoundTrip ==
    /\ cio.op = "unparse_color" =>
            /\ cio.bytes = <<cio.in[1], cio.in[2], cio.in[3], 0>>
            /\ cio.back = Done(cio.in, <<>>)
    /\ cio.op = "color" =>
            cio.out = Done(<<cio.in[1], cio.in[2], cio.in[3]>>, <<>>)

\* a word whose fourth byte is set
C20_Witness ==
    /\ cio.op = "color"
    /\ cio.in = <<1, 128, 255, 255>>
    /\ cio.out.val = Rgb(1, 128, 255)

(***************************************************************************)
(* main.rs against a server that keeps answering: every request that has   *)
(* a reply gets the reply of its kind, the connection stays open, and      *)
(* DeviceListUpdated notifications come at any time.  The display sends no  *)
(* event: update() finds its channel empty and the state stays Normal.     *)
(***************************************************************************)
MaxAnswers == 4
MaxNotifications == 2

\* the notifications the server has written so far
Notifications ==
    Cardinality({i \in DOMAIN arrived : arrived[i] = DeviceListUpdated})
    + Cardinality({i \in DOMAIN sock_in : sock_in[i].pkt_id = ID_DEVICE_LIST_UPDATED})

\* the replies the server has written so far
Answered == npushed - Notifications

\* the server has a request to answer: recv() has returned one reply for each
\* request answered before, and `awaiting` requests are still open
Owed == awaiting + Len(received) > Answered

\* the packets that answer a request
AnswersTo(req) ==
    CASE req.tag = "ProtocolVersion" -> {Pkt(TRUE, ID_PROTOCOL_VERSION, <<0>>)}
      [] req.tag = "ControllerCount" ->
           {Pkt(TRUE, ID_CONTROLLER_COUNT, <<c>>) : c \in 0..MaxControllers}
      [] req.tag = "ControllerData" ->
           {Pkt(TRUE, ID_CONTROLLER_DATA, <<t>>) : t \in {TY_DRAM, TY_GPU}}
      [] OTHER -> {}

\* the server has given all the replies the model lets it give
OutOfAnswers == Answered >= MaxAnswers

\* the server writes packet p to the open connection
ServerWrites(p) ==
    /\ Alive
    /\ con = "open"
    /\ sock_in' = Append(sock_in, p)
    /\ npushed' = npushed + 1
    /\ UNCHANGED <<fg, num_tries, started, con, reader, held, devices_updated, wrote,
                   mainVars, smVars, histVars, codecVars>>

\* the server answers the request it was sent last
ServerAnswer(p) ==
    /\ Owed
    /\ ~OutOfAnswers
    /\ p \in AnswersTo(wrote)
    /\ ServerWrites(p)

\* the server announces a change of its device list
ServerNotify ==
    /\ Notifications < MaxNotifications
    /\ ServerWrites(Pkt(TRUE, ID_DEVICE_LIST_UPDATED, <<>>))

ServedNext ==
    \/ \E accepted \in BOOLEAN : Connect(accepted)
    \/ StartReturn("set_name")
    \/ \E p \in GoodPackets : ServerAnswer(p)
    \/ ServerNotify
    \/ ReaderRead
    \/ ReaderSend
    \/ \E ok \in BOOLEAN : MainSetName(ok)
    \/ \E ok \in BOOLEAN : MainReqVersion(ok)
    \/ MainNewStateMachine
    \/ MainPoll
    \/ \E ok \in BOOLEAN : MainReqCount(ok)
    \/ \E ok \in BOOLEAN : MainReqData(ok)
    \/ MainControllersUpdated
    \/ \E ok \in BOOLEAN : MainUpdate(ok)

\* The threads of the program take their steps, and the server answers.
ServedSpec ==
    /\ Init
    /\ [][ServedNext]_vars
    /\ WF_vars(MainThread)
    /\ WF_vars(ReaderRead \/ ReaderSend)
    /\ WF_vars(\E p \in GoodPackets : ServerAnswer(p))

GotOne ==
    /\ Len(received') = Len(received) + 1
    /\ SubSeq(received', 1, Len(received)) = received

\* the response recv() returns in this step
Reply == received'[Len(received')]

\* the foreground panics in this step, and the state machine is given nothing
Fatal == fg' = "panicked" /\ UNCHANGED <<mainVars, dram_idx, enumerations>>

\* the foreground sends `req` in this step, or the write fails
Sends(req, next) ==
    \/ fg' = next /\ wrote' = req /\ awaiting' = awaiting + 1
    \/ Fatal /\ UNCHANGED <<wrote, awaiting>>

\* C22: the enumeration alternates strictly.  It starts only out of a
\* devices_updated_reset() that returned true; ControllerCount is sent and one
\* reply is received; ControllerData{i} is sent for i = 0, 1, ... in this
\* order, each after the reply to the one before, i being the number of data
\* replies received so far; no request is sent while a reply is awaited; a
\* reply of another variant than the requested one panics, and a panicked
\* foreground never calls controllers_updated(); the list is handed over with
\* one entry for each index below the count.
AlternatingStep ==
    /\ (fg # "req_count" /\ fg' = "req_count") => (fg = "poll" /\ devices_updated)
    /\ (fg = "req_count" /\ fg' # fg) => Sends(Req("ControllerCount", 0), "recv_count")
    /\ (fg = "recv_count" /\ fg' # fg) =>
         \/ /\ GotOne /\ Reply.tag = "ControllerCount"
            /\ fg' = "for_next"
            /\ controller_count' = Reply.val
            /\ new_controllers' = <<>>
         \/ GotOne /\ Reply.tag # "ControllerCount" /\ Fatal
         \/ received' = received /\ Fatal
    /\ (fg = "for_next" /\ fg' # fg) =>
         IF Len(new_controllers) < controller_count
         THEN Sends(Req("ControllerData", Len(new_controllers)), "recv_data")
         ELSE /\ Len(new_controllers) = controller_count
              /\ fg' = "update"
              /\ enumerations' = Min(enumerations + 1, 2)
    /\ (fg = "recv_data" /\ fg' # fg) =>
         \/ /\ GotOne /\ Reply.tag = "ControllerData"
            /\ fg' = "for_next"
            /\ new_controllers' = Append(new_controllers, Reply.val)
            /\ controller_count' = controller_count
         \/ GotOne /\ Reply.tag # "ControllerData" /\ Fatal
         \/ received' = received /\ Fatal
    /\ fg \in {"recv_count", "recv_data"} => UNCHANGED <<wrote, awaiting>> \/ fg' # fg
    /\ fg = "panicked" => UNCHANGED <<fg, wrote, dram_idx, enumerations>>
    /\ (enumerations' # enumerations \/ dram_idx' # dram_idx) =>
         fg \in {"for_next", "new_sm"}

C22_Alternating == [][AlternatingStep]_vars

\* the second data request of an enumeration is sent: index 1, after the reply
\* to index 0 has been received
C22_Witness ==
    /\ fg = "recv_data"
    /\ wrote = Req("ControllerData", 1)
    /\ Len(new_controllers) = 1
    /\ controller_count = 2

\* C23: notifications coalesce.  A devices_updated_reset() call after the
\* first returns true exactly when the reader stored at least one
\* notification since the call before it, however many it stored; and after
\* any call the flag, which is what the next call returns, is set exactly
\* when a notification was stored since.
C23_Coalesce ==
    /\ \A i \in 2..Len(reset_log) : reset_log[i].ret <=> reset_log[i].unseen >= 1
    /\ reset_log # <<>> => (devices_updated <=> unseen >= 1)

\* two notifications were stored between the first call and the second, the
\* second returned true, and the flag is clear for the call after it
C23_Witness ==
    /\ Len(reset_log) = 2
    /\ reset_log[2].unseen >= 2
    /\ reset_log[2].ret
    /\ unseen = 0
    /\ ~devices_updated

(***************************************************************************)
(* The StateMachine under an arbitrary caller: controllers_updated() with  *)
(* any list and update() in any order, the display sending any events.     *)
(* The server sends nothing, so the reader thread has nothing to hand over *)
(* and is left out; the server may close, which lets a write fail.         *)
(***************************************************************************)
\* the lists a caller hands to controllers_updated(): the types of the controllers
ControllerLists == UNION {[1..n -> {TY_DRAM, TY_GPU}] : n \in 0..MaxControllers}

CallNew ==
    /\ fg = "new_sm"
    /\ new("use")

CallControllersUpdated(controllers) ==
    /\ fg = "use"
    /\ controllers_updated(controllers, "use")
    /\ new_controllers' = controllers
    /\ UNCHANGED <<controller_count, controller_idx>>

CallUpdate(ok) ==
    /\ fg = "use"
    /\ update(ok, "use")

MachineNext ==
    \/ \E accepted \in BOOLEAN : Connect(accepted)
    \/ StartReturn("new_sm")
    \/ ServerClose
    \/ \E e \in DisplayEvents : NotifierSend(e)
    \/ CallNew
    \/ \E controllers \in ControllerLists : CallControllersUpdated(controllers)
    \/ \E ok \in BOOLEAN : CallUpdate(ok)

MachineSpec == Init /\ [][MachineNext]_vars

\* update() is called again and again (main.rs calls it every 100 ms)
FairMachineSpec == MachineSpec /\ WF_vars(\E ok \in BOOLEAN : CallUpdate(ok))

\* this step is a call of update()
UpdateCalled == \E ok \in BOOLEAN : CallUpdate(ok)

\* the event update() takes in this step
Taken == IF events = <<>> THEN NoEvent ELSE Head(events)

\* C24: the state changes only in update(), which takes at most one event.
\* From Normal the state goes to Sleep exactly when the event taken is Off or
\* Dimmed, and stays Normal otherwise; from Sleep it goes to Wake{0, 5}
\* exactly when the event taken is On, and stays Sleep otherwise; Wake counts
\* the updates since it was entered, stays Wake for four of them and goes to
\* Normal{0} on the fifth, whatever event is taken.
TransitionStep ==
    /\ Len(events') >= Len(events) - 1
    /\ (sm_state' # sm_state \/ Len(events') < Len(events)) => UpdateCalled
    /\ sm_state.tag = "Wake" => sm_state.ticks \in 0..4 /\ sm_state.ticks_max = 5
    /\ UpdateCalled =>
         /\ sm_state.tag = "Normal" =>
              IF Taken \in {"Off", "Dimmed"}
              THEN sm_state' = Sleep
              ELSE sm_state'.tag = "Normal"
         /\ sm_state.tag = "Sleep" =>
              IF Taken = "On"
              THEN sm_state' = [tag |-> "Wake", ticks |-> 0, ticks_max |-> 5]
              ELSE sm_state' = Sleep
         /\ sm_state.tag = "Wake" =>
              IF sm_state.ticks = 4
              THEN sm_state' = [tag |-> "Normal", ticks |-> 0, ticks_max |-> 0]
              ELSE sm_state' = [sm_state EXCEPT !.ticks = @ + 1]

C24_Transitions == [][TransitionStep]_vars

\* the fourth update() after Wake was entered is done, and a third event,
\* sent after Off and On, was taken on the way
C24_Witness ==
    /\ sm_state = Wake(4, WAKE_TICKS_MAX)
    /\ nevents = 3
    /\ events = <<>>

\* C25: the state machine tracks the display.  From the moment the last event
\* of the display is sent, if it is Off or Dimmed, the state machine comes to
\* Sleep and stays there (or the program has panicked on a failed write).
C25_TracksDisplay ==
    (/\ nevents = MaxEvents
     /\ events # <<>>
     /\ events[Len(events)] \in {"Off", "Dimmed"})
      ~> ([](sm_state = Sleep) \/ fg = "panicked")

\* the first Dram controller of the list last given to controllers_updated(),
\* counted from 0
HasDram == \E i \in DOMAIN new_controllers : new_controllers[i] = TY_DRAM
FirstDram ==
    (CHOOSE i \in DOMAIN new_controllers :
       /\ new_controllers[i] = TY_DRAM
       /\ \A j \in 1..(i - 1) : new_controllers[j] # TY_DRAM) - 1

\* C26: a call of update() sends one request, UpdateLeds with 5 colors for
\* the first Dram controller of the list last given to controllers_updated(),
\* or panics on the failed write; it sends nothing when that list has no Dram
\* controller or no list was given; and it never enters recv().
UpdateLedsStep ==
    UpdateCalled =>
      /\ received' = received
      /\ awaiting' = awaiting
      /\ ~(fg' \in {"recv", "recv_version", "recv_count", "recv_data"})
      /\ IF HasDram
         THEN \/ /\ fg' = "use"
                 /\ wrote'.tag = "UpdateLeds"
                 /\ wrote'.idx = FirstDram
                 /\ Len(wrote'.colors) = 5
                 /\ pending_sends' = Min(pending_sends + 1, MaxPending)
              \/ /\ fg' = "panicked"
                 /\ UNCHANGED <<wrote, pending_sends>>
         ELSE UNCHANGED <<fg, wrote, pending_sends>>

C26_UpdateLeds == [][UpdateLedsStep]_vars

\* update() has sent the colors to controller 1, the first Dram controller of
\* a list that starts with another controller
C26_Witness ==
    /\ new_controllers = <<TY_GPU, TY_DRAM>>
    /\ wrote = UpdateLeds(1, dram_colors(sm_state))
    /\ fg = "use"

====
